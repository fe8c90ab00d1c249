-------------------------- MODULE DstNetworkProofs --------------------------
(***************************************************************************)
(* The network of the harness does what its comments promise about         *)
(* partitions, and nothing that the network of Raft could not do, for any  *)
(* number of nodes and messages and any delay.                             *)
(***************************************************************************)
EXTENDS DstNetwork, FiniteSetTheorems, TLAPS

\* What waits in an inbox, or was handed out of it, has been sent to its node
Addressed ==
    \A i \in Node :
        /\ \A p \in inbox[i] : p.msg \in sent /\ p.msg.to = i
        /\ \A d \in handed[i] : d.msg \in sent /\ d.msg.to = i

\* Nothing is infinite
Finite ==
    /\ IsFiniteSet(sent)
    /\ \A i \in Node : IsFiniteSet(inbox[i]) /\ IsFiniteSet(handed[i])

\* The inductive invariant
NetworkInv == TypeOK /\ Finite /\ Addressed /\ PartitionIsClean

-----------------------------------------------------------------------------
\* A network that has carried nothing satisfies the invariant.
LEMMA InitInv == Init => NetworkInv
<1> SUFFICES ASSUME Init PROVE NetworkInv
  OBVIOUS
<1> USE NetworkAssumption DEF Init
<1>1. IsFiniteSet({})
  BY FS_EmptySet
<1>2. TypeOK
  BY DEF TypeOK
<1>3. Finite
  BY <1>1 DEF Finite
<1>4. Addressed
  BY DEF Addressed
<1>5. PartitionIsClean
  BY DEF PartitionIsClean
<1> QED
  BY <1>2, <1>3, <1>4, <1>5 DEF NetworkInv

-----------------------------------------------------------------------------
\* Connections that break and are repaired only empty inboxes.
LEMMA DriveInv ==
    ASSUME NetworkInv, NEW victims \in SUBSET Node, NEW heals \in BOOLEAN,
           Drive(victims, heals)
    PROVE  NetworkInv'
<1> USE NetworkAssumption DEF NetworkInv
<1>1. /\ phase' = "send" /\ curTick' = curTick + 1
      /\ partitioned' = Healed(partitioned \cup victims, heals)
      /\ inbox' = [i \in Node |-> IF i \in victims THEN {} ELSE inbox[i]]
      /\ cut' = [i \in Node |-> IF i \in victims THEN nextSeq ELSE cut[i]]
      /\ nextSeq' = nextSeq /\ sent' = sent /\ handed' = handed
  BY DEF Drive, Without
<1>2. partitioned' \subseteq partitioned \cup victims
  BY <1>1 DEF Healed
<1>3. \A i \in Node : inbox'[i] \subseteq inbox[i] /\ (i \in victims => inbox'[i] = {})
  BY <1>1
<1>4. TypeOK'
  <2>1. inbox' \in [Node -> SUBSET Pending]
    BY <1>1 DEF TypeOK
  <2>2. cut' \in [Node -> 0..nextSeq']
    BY <1>1 DEF TypeOK
  <2>3. \A i, j \in Node : \A p \in inbox'[i], q \in inbox'[j] :
            p.seq \in 1..nextSeq' /\ (p.seq = q.seq => p = q)
    BY <1>1, <1>3 DEF TypeOK
  <2>4. /\ curTick' \in Nat /\ phase' \in {"drive", "send"} /\ nextSeq' \in Nat
        /\ sent' \subseteq Message /\ handed' \in [Node -> SUBSET Delivery]
    BY <1>1 DEF TypeOK
  <2>5. partitioned' \subseteq Node
    BY <1>2 DEF TypeOK
  <2> QED
    BY <2>1, <2>2, <2>3, <2>4, <2>5 DEF TypeOK
<1>5. Finite'
  <2>1. \A i \in Node : IsFiniteSet(inbox'[i])
    BY <1>3, FS_Subset DEF Finite
  <2> QED
    BY <2>1, <1>1 DEF Finite
<1>6. Addressed'
  BY <1>1, <1>3 DEF Addressed
<1>7. PartitionIsClean'
  <2> SUFFICES ASSUME NEW i \in Node
               PROVE  /\ i \in partitioned' => inbox'[i] = {}
                      /\ \A p \in inbox'[i] : p.seq > cut'[i]
    BY DEF PartitionIsClean
  <2>1. CASE i \in victims
    BY <2>1, <1>3
  <2>2. CASE i \notin victims
    BY <2>2, <1>1, <1>2 DEF PartitionIsClean
  <2> QED
    BY <2>1, <2>2
<1> QED
  BY <1>4, <1>5, <1>6, <1>7

-----------------------------------------------------------------------------
\* The next message has a type, and was not sent before.
LEMMA FreshIsNew ==
    ASSUME NetworkInv, NEW from \in Node, NEW to \in Node
    PROVE  /\ Fresh(from, to) \in Message
           /\ Fresh(from, to).to = to
<1>1. Cardinality(sent) \in Nat
  BY FS_CardinalityType DEF NetworkInv, Finite
<1> QED
  BY <1>1 DEF NetworkInv, TypeOK, Fresh, Message

\* A message that is lost changes nothing but the record of what was sent.
LEMMA SendLostInv ==
    ASSUME NetworkInv, NEW from \in Node, NEW to \in Node, SendLost(from, to)
    PROVE  NetworkInv'
<1> USE DEF NetworkInv
<1>1. /\ sent' = sent \cup {Fresh(from, to)}
      /\ curTick' = curTick /\ phase' = phase /\ partitioned' = partitioned
      /\ handed' = handed /\ cut' = cut /\ inbox' = inbox /\ nextSeq' = nextSeq
  BY DEF SendLost, Sending
<1>2. TypeOK'
  BY <1>1, FreshIsNew DEF TypeOK
<1>3. Finite'
  BY <1>1, FS_AddElement DEF Finite
<1>4. Addressed'
  BY <1>1 DEF Addressed
<1>5. PartitionIsClean'
  BY <1>1 DEF PartitionIsClean
<1> QED
  BY <1>2, <1>3, <1>4, <1>5

\* A message that is queued, and its copy, get new numbers.
LEMMA SendQueuedInv ==
    ASSUME NetworkInv, NEW from \in Node, NEW to \in Node, NEW delay \in 0..MaxDelay,
           NEW again \in BOOLEAN, SendQueued(from, to, delay, again)
    PROVE  NetworkInv'
<1> USE NetworkAssumption DEF NetworkInv
<1> DEFINE m == Fresh(from, to)
           Q == Queued(m, delay, again)
           last == nextSeq + (IF again THEN 2 ELSE 1)
<1>1. /\ sent' = sent \cup {m}
      /\ curTick' = curTick /\ phase' = phase /\ partitioned' = partitioned
      /\ handed' = handed /\ cut' = cut
      /\ nextSeq' = last
      /\ from \notin partitioned /\ to \notin partitioned
  BY DEF SendQueued, Sending, CutOff
<1>2. m \in Message /\ m.to = to
  BY FreshIsNew
<1>3. inbox' = [inbox EXCEPT ![to] = @ \cup Q]
  <2>1. BoxOf(m) = to
    BY <1>2 DEF BoxOf
  <2> QED
    BY <2>1 DEF SendQueued
<1>4. /\ Q \subseteq Pending /\ IsFiniteSet(Q)
      /\ \A p \in Q : p.msg = m /\ p.seq > nextSeq /\ p.seq <= last
      /\ \A p, q \in Q : p.seq = q.seq => p = q
  <2> DEFINE a == [msg |-> m, readyTick |-> curTick + delay, seq |-> nextSeq + 1]
             b == [msg |-> m, readyTick |-> curTick + delay + 1, seq |-> nextSeq + 2]
  <2>1. a \in Pending /\ b \in Pending
    BY <1>2 DEF TypeOK, Pending
  <2>2. Q \subseteq {a, b} /\ (~again => Q = {a})
    BY DEF Queued
  <2>3. IsFiniteSet(Q)
    <3>1. IsFiniteSet({a, b})
      <4> HIDE DEF a, b
      <4>1. IsFiniteSet({} \cup {a})
        BY FS_EmptySet, FS_AddElement
      <4>2. IsFiniteSet(({} \cup {a}) \cup {b})
        BY <4>1, FS_AddElement
      <4>3. ({} \cup {a}) \cup {b} = {a, b}
        OBVIOUS
      <4> QED
        BY <4>2, <4>3
    <3> QED
      BY <3>1, <2>2, FS_Subset
  <2>4. nextSeq \in Nat
    BY DEF TypeOK
  <2>5. a.seq = nextSeq + 1 /\ b.seq = nextSeq + 2 /\ a.msg = m /\ b.msg = m
    OBVIOUS
  <2> HIDE DEF a, b, m, Q
  <2> QED
    BY <2>1, <2>2, <2>3, <2>4, <2>5
<1> HIDE DEF m, Q
<1>5. last \in Nat /\ last > nextSeq /\ nextSeq \in Nat
  BY DEF TypeOK
<1>6. \A i \in Node : inbox'[i] = IF i = to THEN inbox[i] \cup Q ELSE inbox[i]
  BY <1>3 DEF TypeOK
<1>7. TypeOK'
  <2>1. inbox' \in [Node -> SUBSET Pending]
    BY <1>3, <1>4 DEF TypeOK
  <2>2. cut' \in [Node -> 0..nextSeq']
    BY <1>1, <1>5 DEF TypeOK
  <2>3. \A i, j \in Node : \A p \in inbox'[i], q \in inbox'[j] :
            p.seq \in 1..nextSeq' /\ (p.seq = q.seq => p = q)
    <3> SUFFICES ASSUME NEW i \in Node, NEW j \in Node,
                        NEW p \in inbox'[i], NEW q \in inbox'[j]
                 PROVE  p.seq \in 1..nextSeq' /\ (p.seq = q.seq => p = q)
      OBVIOUS
    <3> HIDE DEF last
    <3>1. \A x \in inbox[i] \cup inbox[j] : x \in Pending /\ x.seq \in 1..nextSeq
      BY DEF TypeOK
    <3>2. \A x \in Q : x.seq \in Nat
      BY <1>4 DEF Pending
    <3>3. p \in inbox[i] \/ p \in Q
      BY <1>6
    <3>4. q \in inbox[j] \/ q \in Q
      BY <1>6
    <3>5. p \in inbox[i] /\ q \in inbox[j] => (p.seq = q.seq => p = q)
      BY DEF TypeOK
    <3> QED
      BY <3>1, <3>2, <3>3, <3>4, <3>5, <1>1, <1>4, <1>5
  <2> QED
    BY <1>1, <1>2, <1>5, <2>1, <2>2, <2>3 DEF TypeOK
<1>8. Finite'
  <2>1. ASSUME NEW i \in Node PROVE IsFiniteSet(inbox'[i])
    <3>1. IsFiniteSet(inbox[i] \cup Q)
      BY <1>4, FS_Union DEF Finite
    <3> QED
      BY <3>1, <1>6 DEF Finite
  <2> QED
    BY <2>1, <1>1, FS_AddElement DEF Finite
<1>9. Addressed'
  BY <1>1, <1>2, <1>4, <1>6 DEF Addressed
<1>10. PartitionIsClean'
  <2> SUFFICES ASSUME NEW i \in Node
               PROVE  /\ i \in partitioned' => inbox'[i] = {}
                      /\ \A p \in inbox'[i] : p.seq > cut'[i]
    BY DEF PartitionIsClean
  <2>1. i \in partitioned' => inbox'[i] = {}
    BY <1>1, <1>6 DEF PartitionIsClean
  <2>2. cut[i] \in 0..nextSeq
    BY DEF TypeOK
  <2>3. \A p \in Q : p.seq \in Nat
    BY <1>4 DEF Pending
  <2>4. \A p \in inbox'[i] : p.seq > cut'[i]
    <3>1. \A p \in inbox[i] : p.seq > cut'[i]
      BY <1>1 DEF PartitionIsClean
    <3>2. \A p \in Q : p.seq > cut'[i]
      BY <1>1, <1>4, <1>5, <2>2, <2>3
    <3> QED
      BY <3>1, <3>2, <1>6
  <2> QED
    BY <2>1, <2>4
<1> QED
  BY <1>7, <1>8, <1>9, <1>10

-----------------------------------------------------------------------------
\* What Drain returns has its type, and comes from the inbox.
LEMMA DeliveredFacts ==
    ASSUME NetworkInv, NEW i \in Node
    PROVE  /\ Delivered(i) \subseteq Delivery
           /\ IsFiniteSet(Delivered(i))
           /\ \A d \in Delivered(i) : \E p \in inbox[i] : d.msg = p.msg
<1> USE DEF NetworkInv
<1> DEFINE turnOf(p) == Cardinality(handed[i]) + Cardinality({q \in Due(i) : Before(q, p)}) + 1
           given(p) == [msg |-> p.msg, readyTick |-> p.readyTick, seq |-> p.seq,
                        tick |-> curTick, turn |-> turnOf(p)]
<1>1. Delivered(i) = {given(p) : p \in Due(i)}
  BY DEF Delivered
<1>2. Due(i) \subseteq inbox[i] /\ IsFiniteSet(Due(i))
  BY FS_Subset DEF Due, Finite
<1>3. \A p \in Due(i) : turnOf(p) \in Nat
  <2> SUFFICES ASSUME NEW p \in Due(i) PROVE turnOf(p) \in Nat
    OBVIOUS
  <2>1. Cardinality(handed[i]) \in Nat
    BY FS_CardinalityType DEF Finite
  <2>2. IsFiniteSet({q \in Due(i) : Before(q, p)})
    BY <1>2, FS_Subset
  <2>3. Cardinality({q \in Due(i) : Before(q, p)}) \in Nat
    BY <2>2, FS_CardinalityType
  <2> QED
    BY <2>1, <2>3
<1>4. \A p \in Due(i) : given(p) \in Delivery
  <2> SUFFICES ASSUME NEW p \in Due(i) PROVE given(p) \in Delivery
    OBVIOUS
  <2>1. p \in Pending /\ curTick \in Nat
    BY <1>2 DEF TypeOK
  <2>2. turnOf(p) \in Nat
    BY <1>3
  <2> HIDE DEF turnOf
  <2> QED
    BY <2>1, <2>2 DEF Pending, Delivery
<1>5. IsFiniteSet(Delivered(i))
  <2> DEFINE f == [p \in Due(i) |-> given(p)]
  <2> HIDE DEF given
  <2>1. f \in Surjection(Due(i), Delivered(i))
    BY <1>1 DEF Surjection
  <2> QED
    BY <2>1, <1>2, FS_Surjection
<1>6. \A d \in Delivered(i) : \E p \in inbox[i] : d.msg = p.msg
  <2> SUFFICES ASSUME NEW p \in Due(i) PROVE given(p).msg = p.msg
    BY <1>1, <1>2
  <2> QED
    OBVIOUS
<1>7. Delivered(i) \subseteq Delivery
  <2> HIDE DEF given
  <2> QED
    BY <1>1, <1>4
<1> QED
  BY <1>5, <1>6, <1>7

\* Messages leave the inboxes for their nodes.
LEMMA DeliverInv ==
    ASSUME NetworkInv, Deliver
    PROVE  NetworkInv'
<1> USE DEF NetworkInv
<1>1. /\ phase' = "drive" /\ curTick' = curTick /\ partitioned' = partitioned
      /\ nextSeq' = nextSeq /\ sent' = sent /\ cut' = cut
      /\ inbox' = [i \in Node |-> inbox[i] \ Due(i)]
      /\ handed' = [i \in Node |-> IF i \in partitioned THEN handed[i]
                                   ELSE handed[i] \cup Delivered(i)]
  BY DEF Deliver
<1>2. \A i \in Node : inbox'[i] \subseteq inbox[i]
  BY <1>1
<1>3. \A i \in Node : handed'[i] = handed[i] \/ handed'[i] = handed[i] \cup Delivered(i)
  BY <1>1
<1>4. TypeOK'
  <2>1. inbox' \in [Node -> SUBSET Pending]
    BY <1>1 DEF TypeOK
  <2>2. handed' \in [Node -> SUBSET Delivery]
    BY <1>1, DeliveredFacts DEF TypeOK
  <2>3. \A i, j \in Node : \A p \in inbox'[i], q \in inbox'[j] :
            p.seq \in 1..nextSeq' /\ (p.seq = q.seq => p = q)
    BY <1>1, <1>2 DEF TypeOK
  <2> QED
    BY <1>1, <2>1, <2>2, <2>3 DEF TypeOK
<1>5. Finite'
  <2> SUFFICES ASSUME NEW i \in Node
               PROVE  IsFiniteSet(inbox'[i]) /\ IsFiniteSet(handed'[i])
    BY <1>1 DEF Finite
  <2>1. IsFiniteSet(inbox'[i])
    BY <1>2, FS_Subset DEF Finite
  <2>2. IsFiniteSet(handed[i] \cup Delivered(i))
    BY DeliveredFacts, FS_Union DEF Finite
  <2> QED
    BY <2>1, <2>2, <1>3 DEF Finite
<1>6. Addressed'
  <2> SUFFICES ASSUME NEW i \in Node
               PROVE  /\ \A p \in inbox'[i] : p.msg \in sent /\ p.msg.to = i
                      /\ \A d \in handed'[i] : d.msg \in sent /\ d.msg.to = i
    BY <1>1 DEF Addressed
  <2>1. \A d \in Delivered(i) : d.msg \in sent /\ d.msg.to = i
    BY DeliveredFacts DEF Addressed
  <2> QED
    BY <2>1, <1>2, <1>3 DEF Addressed
<1>7. PartitionIsClean'
  BY <1>1, <1>2 DEF PartitionIsClean
<1> QED
  BY <1>4, <1>5, <1>6, <1>7

\* The invariant is inductive.
LEMMA StepInv == NetworkInv /\ [Next]_vars => NetworkInv'
<1> SUFFICES ASSUME NetworkInv, [Next]_vars PROVE NetworkInv'
  OBVIOUS
<1>1. CASE \E victims \in {{}} \cup {{i} : i \in Node}, heals \in BOOLEAN :
              Drive(victims, heals)
  <2>1. PICK victims \in {{}} \cup {{i} : i \in Node}, heals \in BOOLEAN :
            Drive(victims, heals)
    BY <1>1
  <2>2. victims \in SUBSET Node
    OBVIOUS
  <2> QED
    BY <2>1, <2>2, DriveInv
<1>2. CASE \E from, to \in Node : SendLost(from, to)
  BY <1>2, SendLostInv
<1>3. CASE \E from, to \in Node, delay \in 0..MaxDelay, again \in BOOLEAN :
              SendQueued(from, to, delay, again)
  BY <1>3, SendQueuedInv
<1>4. CASE Deliver
  BY <1>4, DeliverInv
<1>5. CASE UNCHANGED vars
  BY <1>5 DEF vars, NetworkInv, TypeOK, Finite, Addressed, PartitionIsClean
<1> QED
  BY <1>1, <1>2, <1>3, <1>4, <1>5 DEF Next

\* Every behaviour satisfies the invariant.
LEMMA NetworkInvariant == Spec => []NetworkInv
  BY InitInv, StepInv, PTL DEF Spec

-----------------------------------------------------------------------------
\* Every field of the network keeps its type, and no two pending messages have one number
\* (Send, Drain).
THEOREM NetworkTypes == Spec => []TypeOK
<1>1. NetworkInv => TypeOK
  BY DEF NetworkInv
<1> QED
  BY <1>1, NetworkInvariant, PTL

\* No message crosses a partition of its receiver, however long it was delayed and however
\* short the partition was (Partition, Send).
THEOREM PartitionsAreClean == Spec => []PartitionIsClean
<1>1. NetworkInv => PartitionIsClean
  BY DEF NetworkInv
<1> QED
  BY <1>1, NetworkInvariant, PTL

\* The network of the harness implements the network that Raft is written for: it delivers
\* to a node only what was sent to it before (Send, Drain, Cluster.Step).
THEOREM NetworkImplementsLossy == Spec => ImplementsLossyNetwork
<1> DEFINE got(i) == {d.msg : d \in handed[i]}
<1>1. Init => Lossy!Init
  <2> SUFFICES ASSUME Init PROVE Lossy!Init
    OBVIOUS
  <2>1. \A i \in Node : handed[i] = {}
    BY DEF Init
  <2>2. [i \in Node |-> {d.msg : d \in handed[i]}] = [i \in Node |-> {}]
    BY <2>1
  <2> QED
    BY <2>2 DEF Lossy!Init, Init
<1>2. NetworkInv /\ NetworkInv' /\ [Next]_vars => [Lossy!Carry]_(Lossy!vars)
  <2> SUFFICES ASSUME NetworkInv, NetworkInv', [Next]_vars
               PROVE  Lossy!Carry
    OBVIOUS
  <2>1. sent \subseteq sent' /\ \A i \in Node : handed[i] \subseteq handed'[i]
    <3>1. CASE \E victims \in {{}} \cup {{i} : i \in Node}, heals \in BOOLEAN :
                  Drive(victims, heals)
      BY <3>1 DEF Drive
    <3>2. CASE \E from, to \in Node : SendLost(from, to)
      BY <3>2 DEF SendLost, Sending
    <3>3. CASE \E from, to \in Node, delay \in 0..MaxDelay, again \in BOOLEAN :
                  SendQueued(from, to, delay, again)
      BY <3>3 DEF SendQueued, Sending
    <3>4. CASE Deliver
      BY <3>4 DEF Deliver
    <3>5. CASE UNCHANGED vars
      BY <3>5 DEF vars
    <3> QED
      BY <3>1, <3>2, <3>3, <3>4, <3>5 DEF Next
  <2>2. \A i \in Node : {d.msg : d \in handed[i]} \subseteq {d.msg : d \in handed'[i]}
    BY <2>1
  <2>3. \A i \in Node : \A m \in {d.msg : d \in handed'[i]} : m \in sent' /\ m.to = i
    BY DEF NetworkInv, Addressed
  <2> QED
    BY <2>1, <2>2, <2>3 DEF Lossy!Carry
<1> QED
  BY <1>1, <1>2, NetworkInvariant, PTL DEF Spec, ImplementsLossyNetwork, Lossy!Spec

-----------------------------------------------------------------------------
(***************************************************************************)
(* When and in which order messages arrive.  What waits is due later, so   *)
(* that all a Drain returns is due in its tick; a number is never given    *)
(* again, and the copies of a message have neighbouring numbers; a Drain   *)
(* counts on from what its node has been handed before.                    *)
(***************************************************************************)

\* A message is due at most MaxDelay ticks after it was sent, or one more for a copy
OnTime(p) == p.readyTick \in p.msg.at .. p.msg.at + MaxDelay + 1

Scheduled ==
    /\ \A m \in sent : m.id =< Cardinality(sent)
    /\ \A i \in Node : \A p \in inbox[i] :
          OnTime(p) /\ p.readyTick >= curTick /\ (phase = "drive" => p.readyTick > curTick)
    /\ \A i \in Node : \A d \in handed[i] :
          /\ OnTime(d) /\ d.tick = d.readyTick
          /\ d.tick =< curTick /\ (phase = "send" => d.tick < curTick)

\* What the network has carried to node i, or still holds for it
Carried(i) == inbox[i] \cup handed[i]

Numbered ==
    \A i \in Node :
        /\ \A d \in handed[i] : d.seq \in 1..nextSeq
        /\ \A d, e \in handed[i] : d.seq = e.seq => d = e
        /\ \A d \in handed[i], p \in inbox[i] : d.seq # p.seq
        /\ \A x, y \in Carried(i) : x.msg = y.msg => x.seq =< y.seq + 1

Counted == \A i \in Node : \A d \in handed[i] : d.turn \in 1..Cardinality(handed[i])

\* The inductive invariant
OrderInv == NetworkInv /\ Scheduled /\ Numbered /\ Counted /\ InOrder

\* What node i is handed p as
TurnOf(i, p) == Cardinality(handed[i]) + Cardinality({q \in Due(i) : Before(q, p)}) + 1

\* What a Drain returns
LEMMA DeliveredIs ==
    ASSUME NEW i \in Node, NEW d \in Delivered(i)
    PROVE  \E p \in Due(i) : /\ d.msg = p.msg /\ d.readyTick = p.readyTick /\ d.seq = p.seq
                             /\ d.tick = curTick /\ d.turn = TurnOf(i, p)
<1>1. \E p \in Due(i) : d = [msg |-> p.msg, readyTick |-> p.readyTick, seq |-> p.seq,
                             tick |-> curTick, turn |-> TurnOf(i, p)]
  BY DEF Delivered, TurnOf
<1> QED
  BY <1>1

\* It is due now
LEMMA DueIs ==
    ASSUME OrderInv, NEW i \in Node, NEW p \in Due(i)
    PROVE  p \in inbox[i] /\ p \in Pending /\ p.readyTick = curTick /\ OnTime(p)
<1>1. p \in inbox[i] /\ p.readyTick =< curTick
  BY DEF Due
<1>2. p \in Pending /\ curTick \in Nat
  BY <1>1 DEF OrderInv, NetworkInv, TypeOK
<1>3. p.readyTick \in Nat
  BY <1>2 DEF Pending
<1>4. p.readyTick >= curTick /\ OnTime(p)
  BY <1>1 DEF OrderInv, Scheduled
<1> QED
  BY <1>1, <1>2, <1>3, <1>4

\* Drain puts what is due in an order, and numbers it in this order
LEMMA TurnLess ==
    ASSUME OrderInv, NEW i \in Node, NEW p \in Due(i), NEW q \in Due(i), p.seq < q.seq
    PROVE  TurnOf(i, p) < TurnOf(i, q)
<1> DEFINE P == {r \in Due(i) : Before(r, p)}
           Q == {r \in Due(i) : Before(r, q)}
<1>1. \A r \in Due(i) : r.seq \in Nat /\ r.readyTick = curTick
  BY DueIs DEF Pending
<1>2. curTick \in Nat
  BY DEF OrderInv, NetworkInv, TypeOK
<1>3. \A r, s \in Due(i) : Before(r, s) <=> r.seq < s.seq
  BY <1>1, <1>2 DEF Before
<1>4. P \subseteq Q /\ p \in Q /\ p \notin P
  BY <1>1, <1>3
<1>5. IsFiniteSet(Q) /\ Cardinality(handed[i]) \in Nat
  <2>1. IsFiniteSet(inbox[i]) /\ IsFiniteSet(handed[i])
    BY DEF OrderInv, NetworkInv, Finite
  <2>2. Q \in SUBSET inbox[i]
    BY DEF Due
  <2> HIDE DEF Q
  <2> QED
    BY <2>1, <2>2, FS_Subset, FS_CardinalityType
<1> HIDE DEF P, Q
<1>6. IsFiniteSet(P) /\ Cardinality(P) =< Cardinality(Q) /\ Cardinality(Q) # Cardinality(P)
  BY <1>4, <1>5, FS_Subset
<1>7. Cardinality(P) \in Nat /\ Cardinality(Q) \in Nat
  BY <1>5, <1>6, FS_CardinalityType
<1> QED
  BY <1>5, <1>6, <1>7 DEF TurnOf, P, Q

\* The turns of a Drain come after those before it, and there are as many as messages
LEMMA TurnBound ==
    ASSUME OrderInv, NEW i \in Node, NEW p \in Due(i)
    PROVE  /\ TurnOf(i, p) \in Nat /\ Cardinality(handed[i]) \in Nat
           /\ TurnOf(i, p) > Cardinality(handed[i])
           /\ TurnOf(i, p) =< Cardinality(handed[i]) + Cardinality(Due(i))
<1> DEFINE P == {r \in Due(i) : Before(r, p)}
<1>1. IsFiniteSet(Due(i)) /\ IsFiniteSet(handed[i])
  <2>1. IsFiniteSet(inbox[i]) /\ IsFiniteSet(handed[i]) /\ Due(i) \in SUBSET inbox[i]
    BY DEF OrderInv, NetworkInv, Finite, Due
  <2> QED
    BY <2>1, FS_Subset
<1>2. P \in SUBSET Due(i) /\ p \notin P
  <2>1. p.seq \in Nat /\ p.readyTick \in Nat
    BY DueIs DEF Pending
  <2> QED
    BY <2>1 DEF Before
<1> HIDE DEF P
<1>3. P \in SUBSET (Due(i) \ {p})
  BY <1>2
<1>4. /\ IsFiniteSet(Due(i) \ {p})
      /\ Cardinality(Due(i) \ {p}) = Cardinality(Due(i)) - 1
  BY <1>1, FS_RemoveElement
<1>5. IsFiniteSet(P) /\ Cardinality(P) =< Cardinality(Due(i) \ {p})
  BY <1>3, <1>4, FS_Subset
<1>6. /\ Cardinality(P) \in Nat /\ Cardinality(Due(i)) \in Nat
      /\ Cardinality(handed[i]) \in Nat
  BY <1>1, <1>5, FS_CardinalityType
<1>7. TurnOf(i, p) = Cardinality(handed[i]) + Cardinality(P) + 1
  BY DEF TurnOf, P
<1> QED
  BY <1>4, <1>5, <1>6, <1>7

\* As many messages are handed out as were due
LEMMA DeliveredMany ==
    ASSUME OrderInv, NEW i \in Node
    PROVE  IsFiniteSet(Delivered(i)) /\ Cardinality(Delivered(i)) = Cardinality(Due(i))
<1> DEFINE given(p) == [msg |-> p.msg, readyTick |-> p.readyTick, seq |-> p.seq,
                        tick |-> curTick, turn |-> TurnOf(i, p)]
           f == [p \in Due(i) |-> given(p)]
<1>1. Delivered(i) = {given(p) : p \in Due(i)}
  BY DEF Delivered, TurnOf
<1>2. IsFiniteSet(Due(i))
  <2>1. IsFiniteSet(inbox[i]) /\ Due(i) \in SUBSET inbox[i]
    BY DEF OrderInv, NetworkInv, Finite, Due
  <2> QED
    BY <2>1, FS_Subset
<1>3. \A p, q \in Due(i) : given(p) = given(q) => p = q
  <2> SUFFICES ASSUME NEW p \in Due(i), NEW q \in Due(i), given(p) = given(q) PROVE p = q
    OBVIOUS
  <2>1. p.seq = q.seq
    OBVIOUS
  <2>2. p \in inbox[i] /\ q \in inbox[i]
    BY DEF Due
  <2> QED
    BY <2>1, <2>2 DEF OrderInv, NetworkInv, TypeOK
<1> HIDE DEF given
<1>4. f \in Surjection(Due(i), Delivered(i))
  BY <1>1 DEF Surjection
<1>5. f \in Injection(Due(i), Delivered(i))
  <2>1. f \in [Due(i) -> Delivered(i)]
    BY <1>1
  <2>2. IsInjective(f)
    BY <1>3 DEF IsInjective
  <2> QED
    BY <2>1, <2>2 DEF Injection
<1> HIDE DEF f
<1> QED
  BY <1>2, <1>4, <1>5, FS_Surjection

\* The order is empty at the beginning.
LEMMA OrderInit == Init => OrderInv
<1> SUFFICES ASSUME Init PROVE OrderInv
  OBVIOUS
<1>1. NetworkInv
  BY InitInv
<1>2. /\ \A i \in Node : inbox[i] = {} /\ handed[i] = {}
      /\ sent = {}
  BY DEF Init
<1> QED
  BY <1>1, <1>2 DEF OrderInv, Scheduled, Numbered, Counted, InOrder, Carried

\* A tick passes, and inboxes are emptied
LEMMA DriveOrder ==
    ASSUME OrderInv, NetworkInv', NEW victims \in SUBSET Node, NEW heals \in BOOLEAN,
           Drive(victims, heals)
    PROVE  OrderInv'
<1>1. /\ phase = "drive" /\ phase' = "send" /\ curTick' = curTick + 1
      /\ \A i \in Node : inbox'[i] \subseteq inbox[i]
      /\ nextSeq' = nextSeq /\ sent' = sent /\ handed' = handed
  BY DEF Drive, Without
<1>2. curTick \in Nat /\ inbox \in [Node -> SUBSET Pending] /\ handed \in [Node -> SUBSET Delivery]
  BY DEF OrderInv, NetworkInv, TypeOK
<1>3. Scheduled'
  <2>1. ASSUME NEW i \in Node, NEW p \in inbox'[i]
        PROVE  OnTime(p) /\ p.readyTick >= curTick'
    <3>1. OnTime(p) /\ p.readyTick > curTick /\ p.readyTick \in Nat
      BY <1>1, <1>2 DEF OrderInv, Scheduled, Pending
    <3> QED
      BY <1>1, <1>2, <3>1
  <2>2. ASSUME NEW i \in Node, NEW d \in handed[i]
        PROVE  OnTime(d) /\ d.tick = d.readyTick /\ d.tick < curTick' /\ d.tick =< curTick'
    <3>1. OnTime(d) /\ d.tick = d.readyTick /\ d.tick =< curTick /\ d.tick \in Nat
      BY <1>2 DEF OrderInv, Scheduled, Delivery
    <3> QED
      BY <1>1, <1>2, <3>1
  <2> QED
    BY <1>1, <2>1, <2>2 DEF OrderInv, Scheduled, OnTime
<1>4. Numbered'
  <2>1. \A i \in Node : Carried(i)' \subseteq Carried(i)
    BY <1>1 DEF Carried
  <2> QED
    BY <1>1, <2>1 DEF OrderInv, Numbered
<1>5. Counted' /\ InOrder'
  BY <1>1 DEF OrderInv, Counted, InOrder
<1> QED
  BY <1>3, <1>4, <1>5 DEF OrderInv

\* A message that is sent is new, and has the last number
LEMMA FreshIsLast ==
    ASSUME OrderInv, NEW from \in Node, NEW to \in Node
    PROVE  /\ Fresh(from, to) \notin sent
           /\ Cardinality(sent \cup {Fresh(from, to)}) = Cardinality(sent) + 1
           /\ Cardinality(sent) \in Nat
           /\ Fresh(from, to).id = Cardinality(sent) + 1 /\ Fresh(from, to).at = curTick
           /\ \A m \in sent : m.id =< Cardinality(sent) + 1
<1>1. IsFiniteSet(sent) /\ sent \subseteq Message
  BY DEF OrderInv, NetworkInv, Finite, TypeOK
<1>2. Cardinality(sent) \in Nat
  BY <1>1, FS_CardinalityType
<1>3. Fresh(from, to).id = Cardinality(sent) + 1 /\ Fresh(from, to).at = curTick
  BY DEF Fresh
<1>4. \A m \in sent : m.id \in Nat /\ m.id =< Cardinality(sent)
  BY <1>1 DEF OrderInv, Scheduled, Message
<1>5. Fresh(from, to) \notin sent
  BY <1>2, <1>3, <1>4
<1>6. \A m \in sent : m.id =< Cardinality(sent) + 1
  BY <1>2, <1>4
<1>7. Cardinality(sent \cup {Fresh(from, to)}) = Cardinality(sent) + 1
  BY <1>1, <1>5, FS_AddElement
<1> QED
  BY <1>2, <1>3, <1>5, <1>6, <1>7

\* A message gets lost
LEMMA SendLostOrder ==
    ASSUME OrderInv, NetworkInv', NEW from \in Node, NEW to \in Node, SendLost(from, to)
    PROVE  OrderInv'
<1>1. /\ phase' = phase /\ curTick' = curTick /\ inbox' = inbox /\ nextSeq' = nextSeq
      /\ handed' = handed /\ sent' = sent \cup {Fresh(from, to)}
  BY DEF SendLost, Sending
<1>2. \A m \in sent' : m.id =< Cardinality(sent')
  <2>1. Cardinality(sent') = Cardinality(sent) + 1 /\ Cardinality(sent) \in Nat
    BY <1>1, FreshIsLast
  <2>2. Fresh(from, to).id = Cardinality(sent) + 1
    BY FreshIsLast
  <2>3. \A m \in sent : m.id =< Cardinality(sent) + 1
    BY FreshIsLast
  <2> QED
    BY <1>1, <2>1, <2>2, <2>3
<1>3. Scheduled'
  BY <1>1, <1>2 DEF OrderInv, Scheduled, OnTime
<1>4. Numbered' /\ Counted' /\ InOrder'
  BY <1>1 DEF OrderInv, Numbered, Carried, Counted, InOrder
<1> QED
  BY <1>3, <1>4 DEF OrderInv

\* A message, and perhaps a copy, is queued
LEMMA SendQueuedOrder ==
    ASSUME OrderInv, NetworkInv', NEW from \in Node, NEW to \in Node,
           NEW delay \in 0..MaxDelay, NEW again \in BOOLEAN,
           SendQueued(from, to, delay, again)
    PROVE  OrderInv'
<1> DEFINE m == Fresh(from, to)
           Q == Queued(m, delay, again)
<1>1. /\ phase = "send" /\ phase' = phase /\ curTick' = curTick
      /\ nextSeq' = nextSeq + (IF again THEN 2 ELSE 1)
      /\ handed' = handed /\ sent' = sent \cup {m}
  BY DEF SendQueued, Sending
<1>2. /\ inbox \in [Node -> SUBSET Pending] /\ handed \in [Node -> SUBSET Delivery]
      /\ nextSeq \in Nat /\ curTick \in Nat /\ MaxDelay \in Nat
  BY NetworkAssumption DEF OrderInv, NetworkInv, TypeOK
<1>3. \A i \in Node : inbox'[i] = inbox[i] \/ inbox'[i] = inbox[i] \cup Q
  BY <1>2 DEF SendQueued
<1>4. \A q \in Q : /\ q.msg = m /\ OnTime(q) /\ q.readyTick >= curTick
                   /\ q.seq \in {nextSeq + 1, nextSeq + 2}
  <2>1. m.at = curTick
    BY DEF Fresh
  <2>2. \A q \in Q : /\ q.msg = m /\ q.readyTick \in {curTick + delay, curTick + delay + 1}
                     /\ q.seq \in {nextSeq + 1, nextSeq + 2}
    BY DEF Queued
  <2> HIDE DEF Q, m
  <2>3. \A q \in Q : q.readyTick \in curTick .. curTick + MaxDelay + 1
    BY <1>2, <2>2
  <2> QED
    BY <1>2, <2>1, <2>2, <2>3 DEF OnTime
<1>5. /\ m \notin sent /\ Cardinality(sent \cup {m}) = Cardinality(sent) + 1
      /\ Cardinality(sent) \in Nat /\ m.id = Cardinality(sent) + 1
      /\ \A l \in sent : l.id =< Cardinality(sent) + 1
  BY FreshIsLast
<1> HIDE DEF m, Q
<1>6. Scheduled'
  <2>1. \A l \in sent' : l.id =< Cardinality(sent')
    BY <1>1, <1>5
  <2>2. ASSUME NEW i \in Node, NEW p \in inbox'[i]
        PROVE  OnTime(p) /\ p.readyTick >= curTick
    <3>1. p \in inbox[i] \/ p \in Q
      BY <1>3
    <3> QED
      BY <1>4, <3>1 DEF OrderInv, Scheduled
  <2> QED
    BY <1>1, <2>1, <2>2 DEF OrderInv, Scheduled, OnTime
<1>7. Numbered'
  <2> SUFFICES ASSUME NEW i \in Node
               PROVE  /\ \A d \in handed'[i] : d.seq \in 1..nextSeq'
                      /\ \A d, e \in handed'[i] : d.seq = e.seq => d = e
                      /\ \A d \in handed'[i], p \in inbox'[i] : d.seq # p.seq
                      /\ \A x, y \in Carried(i)' : x.msg = y.msg => x.seq =< y.seq + 1
    BY DEF Numbered
  <2>1. \A d \in handed[i] : d.seq \in 1..nextSeq /\ d.msg \in sent
    BY DEF OrderInv, Numbered, NetworkInv, Addressed
  <2>2. \A p \in inbox[i] : p.seq \in 1..nextSeq /\ p.msg \in sent
    BY DEF OrderInv, NetworkInv, Addressed, TypeOK
  <2>3. \A p \in inbox'[i] : p \in inbox[i] \/ p \in Q
    BY <1>3
  <2>4. \A d \in handed'[i] : d.seq \in 1..nextSeq'
    BY <1>1, <1>2, <2>1
  <2>5. \A d, e \in handed'[i] : d.seq = e.seq => d = e
    BY <1>1 DEF OrderInv, Numbered
  <2>6. ASSUME NEW d \in handed'[i], NEW p \in inbox'[i]
        PROVE  d.seq # p.seq
    <3>1. CASE p \in inbox[i]
      BY <1>1, <3>1 DEF OrderInv, Numbered
    <3>2. CASE p \in Q
      BY <1>1, <1>2, <1>4, <2>1, <3>2
    <3> QED
      BY <2>3, <3>1, <3>2
  <2>7. ASSUME NEW x \in Carried(i)', NEW y \in Carried(i)', x.msg = y.msg
        PROVE  x.seq =< y.seq + 1
    <3>1. \A z \in Carried(i)' : z \in Carried(i) \/ z \in Q
      BY <1>1, <2>3 DEF Carried
    <3>2. \A z \in Carried(i) : z.msg # m
      BY <1>5, <2>1, <2>2 DEF Carried
    <3>3. CASE x \in Q
      <4>1. y \in Q
        BY <1>4, <2>7, <3>1, <3>2, <3>3
      <4> QED
        BY <1>2, <1>4, <3>3, <4>1
    <3>4. CASE x \in Carried(i)
      <4>1. y \in Carried(i)
        BY <1>4, <2>7, <3>1, <3>2, <3>4
      <4> QED
        BY <2>7, <3>4, <4>1 DEF OrderInv, Numbered
    <3> QED
      BY <3>1, <3>3, <3>4
  <2> QED
    BY <2>4, <2>5, <2>6, <2>7
<1>8. Counted' /\ InOrder'
  BY <1>1 DEF OrderInv, Counted, InOrder
<1> QED
  BY <1>6, <1>7, <1>8 DEF OrderInv

\* What a Drain hands out, compared with what its node has been handed before
LEMMA DeliveredNow ==
    ASSUME OrderInv, phase = "send", NEW i \in Node, NEW d \in Delivered(i)
    PROVE  /\ OnTime(d) /\ d.tick = curTick /\ d.readyTick = curTick
           /\ \E p \in inbox[i] : p.msg = d.msg /\ p.seq = d.seq
           /\ d.seq \in 1..nextSeq
           /\ d.turn \in (Cardinality(handed[i]) + 1) ..
                         (Cardinality(handed[i]) + Cardinality(Due(i)))
           /\ \A e \in handed[i] : /\ e.readyTick < d.readyTick /\ e.turn < d.turn
                                   /\ e.seq # d.seq /\ e # d
<1>1. PICK p \in Due(i) : /\ d.msg = p.msg /\ d.readyTick = p.readyTick /\ d.seq = p.seq
                          /\ d.tick = curTick /\ d.turn = TurnOf(i, p)
  BY DeliveredIs
<1>2. p \in inbox[i] /\ p.readyTick = curTick /\ OnTime(p)
  BY DueIs
<1>3. OnTime(d) /\ d.readyTick = curTick
  BY <1>1, <1>2 DEF OnTime
<1>4. d.seq \in 1..nextSeq
  BY <1>1, <1>2 DEF OrderInv, NetworkInv, TypeOK
<1>5. /\ TurnOf(i, p) \in Nat /\ Cardinality(handed[i]) \in Nat
      /\ TurnOf(i, p) > Cardinality(handed[i])
      /\ TurnOf(i, p) =< Cardinality(handed[i]) + Cardinality(Due(i))
  BY TurnBound
<1>6. Cardinality(Due(i)) \in Nat
  <2>1. IsFiniteSet(inbox[i]) /\ Due(i) \in SUBSET inbox[i]
    BY DEF OrderInv, NetworkInv, Finite, Due
  <2> QED
    BY <2>1, FS_Subset, FS_CardinalityType
<1>7. d.turn \in (Cardinality(handed[i]) + 1) .. (Cardinality(handed[i]) + Cardinality(Due(i)))
  BY <1>1, <1>5, <1>6
<1>8. ASSUME NEW e \in handed[i]
      PROVE  e.readyTick < d.readyTick /\ e.turn < d.turn /\ e.seq # d.seq /\ e # d
  <2>1. e.readyTick < curTick
    BY DEF OrderInv, Scheduled
  <2>2. e.turn \in 1..Cardinality(handed[i])
    BY DEF OrderInv, Counted
  <2>3. e.seq # p.seq
    BY <1>2 DEF OrderInv, Numbered
  <2>4. e.turn < d.turn
    BY <1>1, <1>5, <2>2
  <2> QED
    BY <1>1, <1>3, <2>1, <2>3, <2>4
<1> QED
  BY <1>1, <1>2, <1>3, <1>4, <1>7, <1>8

\* The order within a Drain
LEMMA DeliveredInTurn ==
    ASSUME OrderInv, NEW i \in Node, NEW d \in Delivered(i), NEW e \in Delivered(i), d # e
    PROVE  d.seq # e.seq /\ d.turn # e.turn /\ (d.turn < e.turn => d.seq < e.seq)
<1>1. PICK p \in Due(i) : d = [msg |-> p.msg, readyTick |-> p.readyTick, seq |-> p.seq,
                               tick |-> curTick, turn |-> TurnOf(i, p)]
  BY DEF Delivered, TurnOf
<1>2. PICK q \in Due(i) : e = [msg |-> q.msg, readyTick |-> q.readyTick, seq |-> q.seq,
                               tick |-> curTick, turn |-> TurnOf(i, q)]
  BY DEF Delivered, TurnOf
<1>3. p # q
  BY <1>1, <1>2
<1>4. p.seq # q.seq
  BY <1>3, DueIs DEF OrderInv, NetworkInv, TypeOK
<1>5. p.seq \in Nat /\ q.seq \in Nat
  BY DueIs DEF Pending
<1>6. TurnOf(i, p) \in Nat /\ TurnOf(i, q) \in Nat
  BY TurnBound
<1>7. CASE p.seq < q.seq
  <2>1. TurnOf(i, p) < TurnOf(i, q)
    BY <1>7, TurnLess
  <2> QED
    BY <1>1, <1>2, <1>5, <1>6, <1>7, <2>1
<1>8. CASE q.seq < p.seq
  <2>1. TurnOf(i, q) < TurnOf(i, p)
    BY <1>8, TurnLess
  <2> QED
    BY <1>1, <1>2, <1>5, <1>6, <1>8, <2>1
<1> QED
  BY <1>4, <1>5, <1>7, <1>8

\* Inboxes are drained
LEMMA DeliverOrder ==
    ASSUME OrderInv, NetworkInv', Deliver
    PROVE  OrderInv'
<1>1. /\ phase = "send" /\ phase' = "drive" /\ curTick' = curTick
      /\ nextSeq' = nextSeq /\ sent' = sent
      /\ \A i \in Node : inbox'[i] = inbox[i] \ Due(i)
      /\ \A i \in Node : handed'[i] \in {handed[i], handed[i] \cup Delivered(i)}
  BY DEF Deliver
<1>2. /\ inbox \in [Node -> SUBSET Pending] /\ handed \in [Node -> SUBSET Delivery]
      /\ handed' \in [Node -> SUBSET Delivery] /\ nextSeq \in Nat /\ curTick \in Nat
  BY DEF OrderInv, NetworkInv, TypeOK
<1>3. \A i \in Node : \A d \in handed'[i] : d \in handed[i] \/ d \in Delivered(i)
  BY <1>1
<1>4. Scheduled'
  <2>1. ASSUME NEW i \in Node, NEW p \in inbox'[i]
        PROVE  OnTime(p) /\ p.readyTick >= curTick /\ p.readyTick > curTick
    <3>1. p \in inbox[i] /\ ~(p.readyTick =< curTick) /\ p.readyTick \in Nat
      BY <1>1, <1>2 DEF Due, Pending
    <3>2. OnTime(p)
      BY <3>1 DEF OrderInv, Scheduled
    <3> QED
      BY <1>2, <3>1, <3>2
  <2>2. ASSUME NEW i \in Node, NEW d \in handed'[i]
        PROVE  OnTime(d) /\ d.tick = d.readyTick /\ d.tick =< curTick
    <3>1. CASE d \in handed[i]
      BY <3>1 DEF OrderInv, Scheduled
    <3>2. CASE d \in Delivered(i)
      BY <1>1, <1>2, <3>2, DeliveredNow
    <3> QED
      BY <1>3, <3>1, <3>2
  <2> QED
    BY <1>1, <2>1, <2>2 DEF OrderInv, Scheduled, OnTime
<1>5. Numbered'
  <2> SUFFICES ASSUME NEW i \in Node
               PROVE  /\ \A d \in handed'[i] : d.seq \in 1..nextSeq
                      /\ \A d, e \in handed'[i] : d.seq = e.seq => d = e
                      /\ \A d \in handed'[i], p \in inbox'[i] : d.seq # p.seq
                      /\ \A x, y \in Carried(i)' : x.msg = y.msg => x.seq =< y.seq + 1
    BY <1>1 DEF Numbered
  <2>1. \A d \in handed'[i] : d.seq \in 1..nextSeq
    BY <1>1, <1>3, DeliveredNow DEF OrderInv, Numbered
  <2>2. ASSUME NEW d \in handed'[i], NEW e \in handed'[i], d.seq = e.seq
        PROVE  d = e
    <3>1. CASE d \in handed[i] /\ e \in handed[i]
      BY <2>2, <3>1 DEF OrderInv, Numbered
    <3>2. CASE d \in Delivered(i) /\ e \in Delivered(i)
      BY <2>2, <3>2, DeliveredInTurn
    <3>3. CASE d \in handed[i] /\ e \in Delivered(i)
      BY <1>1, <2>2, <3>3, DeliveredNow
    <3>4. CASE d \in Delivered(i) /\ e \in handed[i]
      BY <1>1, <2>2, <3>4, DeliveredNow
    <3> QED
      BY <1>3, <3>1, <3>2, <3>3, <3>4
  <2>3. ASSUME NEW d \in handed'[i], NEW p \in inbox'[i]
        PROVE  d.seq # p.seq
    <3>1. p \in inbox[i] /\ p \notin Due(i)
      BY <1>1
    <3>2. CASE d \in handed[i]
      BY <3>1, <3>2 DEF OrderInv, Numbered
    <3>3. CASE d \in Delivered(i)
      <4>1. PICK q \in Due(i) : d.seq = q.seq
        BY <3>3, DeliveredIs
      <4>2. q \in inbox[i] /\ q # p
        BY <3>1, <4>1 DEF Due
      <4> QED
        BY <3>1, <4>1, <4>2 DEF OrderInv, NetworkInv, TypeOK
    <3> QED
      BY <1>3, <3>2, <3>3
  <2>4. ASSUME NEW x \in Carried(i)', NEW y \in Carried(i)', x.msg = y.msg
        PROVE  x.seq =< y.seq + 1
    <3>1. \A z \in Carried(i)' : \E w \in Carried(i) : w.msg = z.msg /\ w.seq = z.seq
      <4> SUFFICES ASSUME NEW z \in Carried(i)'
                   PROVE  \E w \in Carried(i) : w.msg = z.msg /\ w.seq = z.seq
        OBVIOUS
      <4>1. CASE z \in Carried(i)
        BY <4>1
      <4>2. CASE z \in Delivered(i)
        BY <1>1, <4>2, DeliveredNow DEF Carried
      <4> QED
        BY <1>1, <1>3, <4>1, <4>2 DEF Carried
    <3>2. PICK v \in Carried(i) : v.msg = x.msg /\ v.seq = x.seq
      BY <3>1
    <3>3. PICK w \in Carried(i) : w.msg = y.msg /\ w.seq = y.seq
      BY <3>1
    <3>4. v.seq =< w.seq + 1
      BY <2>4, <3>2, <3>3 DEF OrderInv, Numbered
    <3> QED
      BY <3>2, <3>3, <3>4
  <2> QED
    BY <2>1, <2>2, <2>3, <2>4
<1>6. Counted'
  <2> SUFFICES ASSUME NEW i \in Node, NEW d \in handed'[i]
               PROVE  d.turn \in 1..Cardinality(handed'[i])
    BY DEF Counted
  <2>1. CASE handed'[i] = handed[i]
    BY <2>1 DEF OrderInv, Counted
  <2>2. CASE handed'[i] = handed[i] \cup Delivered(i)
    <3>1. IsFiniteSet(handed[i]) /\ IsFiniteSet(Delivered(i))
      BY DeliveredMany DEF OrderInv, NetworkInv, Finite
    <3>2. handed[i] \cap Delivered(i) = {}
      BY <1>1, DeliveredNow
    <3>3. /\ Cardinality(handed[i]) \in Nat /\ Cardinality(Due(i)) \in Nat
          /\ Cardinality(Delivered(i)) = Cardinality(Due(i))
      BY <3>1, FS_CardinalityType, DeliveredMany
    <3>4. Cardinality(handed[i] \cap Delivered(i)) = 0
      BY <3>2, FS_EmptySet
    <3>5. Cardinality(handed[i] \cup Delivered(i)) =
            Cardinality(handed[i]) + Cardinality(Delivered(i))
            - Cardinality(handed[i] \cap Delivered(i))
      BY <3>1, FS_Union
    <3>6. Cardinality(handed'[i]) = Cardinality(handed[i]) + Cardinality(Due(i))
      BY <2>2, <3>3, <3>4, <3>5
    <3>7. CASE d \in handed[i]
      <4>1. d.turn \in 1..Cardinality(handed[i])
        BY <3>7 DEF OrderInv, Counted
      <4> QED
        BY <3>3, <3>6, <4>1
    <3>8. CASE d \in Delivered(i)
      <4>1. d.turn \in (Cardinality(handed[i]) + 1) ..
                       (Cardinality(handed[i]) + Cardinality(Due(i)))
        BY <1>1, <3>8, DeliveredNow
      <4> QED
        BY <3>3, <3>6, <4>1
    <3> QED
      BY <1>3, <3>7, <3>8
  <2> QED
    BY <1>1, <2>1, <2>2
<1>7. InOrder'
  <2> SUFFICES ASSUME NEW i \in Node, NEW d \in handed'[i], NEW e \in handed'[i], d # e
               PROVE  /\ d.turn # e.turn
                      /\ d.turn < e.turn => d.readyTick =< e.readyTick
                      /\ d.turn < e.turn /\ d.readyTick = e.readyTick => d.seq < e.seq
    BY DEF InOrder
  <2>1. /\ d.turn \in Nat /\ d.readyTick \in Nat /\ d.seq \in Nat
        /\ e.turn \in Nat /\ e.readyTick \in Nat /\ e.seq \in Nat
    <3>1. d \in Delivery /\ e \in Delivery
      BY <1>2
    <3> QED
      BY <3>1 DEF Delivery
  <2>2. CASE d \in handed[i] /\ e \in handed[i]
    BY <2>2 DEF OrderInv, InOrder
  <2>3. CASE d \in handed[i] /\ e \in Delivered(i)
    <3>1. d.readyTick < e.readyTick /\ d.turn < e.turn
      BY <1>1, <2>3, DeliveredNow
    <3> QED
      BY <2>1, <3>1
  <2>4. CASE d \in Delivered(i) /\ e \in handed[i]
    <3>1. e.readyTick < d.readyTick /\ e.turn < d.turn
      BY <1>1, <2>4, DeliveredNow
    <3> QED
      BY <2>1, <3>1
  <2>5. CASE d \in Delivered(i) /\ e \in Delivered(i)
    <3>1. d.readyTick = curTick /\ e.readyTick = curTick
      BY <1>1, <2>5, DeliveredNow
    <3>2. d.turn # e.turn /\ (d.turn < e.turn => d.seq < e.seq)
      BY <2>5, DeliveredInTurn
    <3> QED
      BY <1>2, <3>1, <3>2
  <2> QED
    BY <1>3, <2>2, <2>3, <2>4, <2>5
<1> QED
  BY <1>4, <1>5, <1>6, <1>7 DEF OrderInv

\* Every step keeps the order
LEMMA OrderStep ==
    ASSUME OrderInv, NetworkInv', [Next]_vars
    PROVE  OrderInv'
<1>1. CASE \E victims \in {{}} \cup {{i} : i \in Node}, heals \in BOOLEAN :
              Drive(victims, heals)
  <2>1. PICK victims \in {{}} \cup {{i} : i \in Node}, heals \in BOOLEAN :
                Drive(victims, heals)
    BY <1>1
  <2>2. victims \in SUBSET Node
    OBVIOUS
  <2> QED
    BY <2>1, <2>2, DriveOrder
<1>2. CASE \E from, to \in Node : SendLost(from, to)
  BY <1>2, SendLostOrder
<1>3. CASE \E from, to \in Node, delay \in 0..MaxDelay, again \in BOOLEAN :
              SendQueued(from, to, delay, again)
  BY <1>3, SendQueuedOrder
<1>4. CASE Deliver
  BY <1>4, DeliverOrder
<1>5. CASE UNCHANGED vars
  <2>1. /\ phase' = phase /\ curTick' = curTick /\ inbox' = inbox /\ nextSeq' = nextSeq
        /\ sent' = sent /\ handed' = handed
    BY <1>5 DEF vars
  <2>2. Scheduled'
    BY <2>1 DEF OrderInv, Scheduled, OnTime
  <2>3. Numbered' /\ Counted' /\ InOrder'
    BY <2>1 DEF OrderInv, Numbered, Carried, Counted, InOrder
  <2> QED
    BY <2>2, <2>3 DEF OrderInv
<1> QED
  BY <1>1, <1>2, <1>3, <1>4, <1>5 DEF Next

\* The order is invariant
LEMMA OrderInvariant == Spec => []OrderInv
<1>1. OrderInv /\ NetworkInv' /\ [Next]_vars => OrderInv'
  BY OrderStep
<1> QED
  BY <1>1, OrderInit, NetworkInvariant, PTL DEF Spec

\* A node is handed its messages in the order of their scheduled ticks and, within a tick,
\* in the order of sending, over all its Drains, whatever the delays and the copies (Send,
\* Drain).
THEOREM DrainsAreInOrder == Spec => []InOrder
<1>1. OrderInv => InOrder
  BY DEF OrderInv
<1> QED
  BY <1>1, OrderInvariant, PTL

\* A message that is handed out was due in just this tick, at most MaxDelay + 1 ticks after
\* it was sent, and no message is handed out more than twice: no inbox forgets or repeats a
\* message (Send, Drain, Step).
THEOREM MessagesArriveOnTime == Spec => []ArrivesOnTime
<1>1. OrderInv => ArrivesOnTime
  <2> SUFFICES ASSUME OrderInv PROVE ArrivesOnTime
    OBVIOUS
  <2>1. ASSUME NEW i \in Node, NEW d \in handed[i]
        PROVE  Cardinality({e \in handed[i] : e.msg = d.msg}) =< 2
    <3> DEFINE S == {e \in handed[i] : e.msg = d.msg}
    <3>1. \A x, y \in S : x.seq \in Nat /\ (x.seq = y.seq => x = y) /\ x.seq =< y.seq + 1
      <4>1. \A x \in S : x \in Delivery
        BY DEF OrderInv, NetworkInv, TypeOK
      <4>2. \A x \in S : x.seq \in Nat
        BY <4>1 DEF Delivery
      <4> QED
        BY <4>2 DEF OrderInv, Numbered, Carried
    <3>2. d \in S
      OBVIOUS
    <3> HIDE DEF S
    <3>3. \E e \in S : S \subseteq {d, e}
      <4>1. CASE S \subseteq {d}
        BY <3>2, <4>1
      <4>2. CASE ~(S \subseteq {d})
        <5>1. PICK e \in S : e # d
          BY <4>2
        <5>2. ASSUME NEW x \in S, x # d, x # e PROVE FALSE
          <6>1. x.seq # d.seq /\ x.seq # e.seq /\ e.seq # d.seq
            BY <3>1, <3>2, <5>1, <5>2
          <6>2. /\ x.seq =< d.seq + 1 /\ d.seq =< x.seq + 1 /\ x.seq =< e.seq + 1
                /\ e.seq =< x.seq + 1 /\ e.seq =< d.seq + 1 /\ d.seq =< e.seq + 1
            BY <3>1, <3>2, <5>1
          <6>3. x.seq \in Nat /\ d.seq \in Nat /\ e.seq \in Nat
            BY <3>1, <3>2, <5>1
          <6> QED
            BY <6>1, <6>2, <6>3
        <5> QED
          BY <5>1, <5>2
      <4> QED
        BY <4>1, <4>2
    <3>4. PICK e \in S : S \subseteq {d, e}
      BY <3>3
    <3>5. IsFiniteSet({d, e}) /\ Cardinality({d, e}) =< 2
      <4>1. CASE d = e
        <5>1. {d, e} = {d}
          BY <4>1
        <5>2. IsFiniteSet({d}) /\ Cardinality({d}) = 1
          BY FS_Singleton
        <5> QED
          BY <5>1, <5>2
      <4>2. CASE d # e
        <5>1. IsFiniteSet({d}) /\ Cardinality({d}) = 1
          BY FS_Singleton
        <5>2. IsFiniteSet({d} \cup {e}) /\ Cardinality({d} \cup {e}) = 1 + 1
          BY <4>2, <5>1, FS_AddElement
        <5>3. {d} \cup {e} = {d, e}
          OBVIOUS
        <5> QED
          BY <5>2, <5>3
      <4> QED
        BY <4>1, <4>2
    <3>6. IsFiniteSet(S) /\ Cardinality(S) =< Cardinality({d, e})
      BY <3>4, <3>5, FS_Subset
    <3>7. Cardinality(S) \in Nat /\ Cardinality({d, e}) \in Nat
      BY <3>5, <3>6, FS_CardinalityType
    <3>8. Cardinality(S) =< 2
      BY <3>5, <3>6, <3>7
    <3> QED
      BY <3>8 DEF S
  <2>2. ASSUME NEW i \in Node, NEW d \in handed[i]
        PROVE  d.tick = d.readyTick /\ d.tick \in d.msg.at .. d.msg.at + MaxDelay + 1
    BY DEF OrderInv, Scheduled, OnTime
  <2>3. ASSUME NEW i \in Node, phase = "drive", NEW p \in inbox[i]
        PROVE  p.readyTick > curTick
    BY <2>3 DEF OrderInv, Scheduled
  <2> QED
    BY <2>1, <2>2, <2>3 DEF ArrivesOnTime
<1> QED
  BY <1>1, OrderInvariant, PTL

=============================================================================
