-------------------------- MODULE DstClientProofs ---------------------------
(***************************************************************************)
(* The clients of the harness keep their records well formed, are never    *)
(* stuck with an operation for longer than the time-out, and read nothing  *)
(* that was out of date when they asked: for any number of clients, nodes  *)
(* and operations, any time-out, and a network that may repeat proposals.  *)
(* Where one of them writes, it is told only of writes of its own.         *)
(***************************************************************************)
EXTENDS DstClient, NumberLemmas, SequenceTheorems, TLAPS

\* An operation is pending for at most the time-out, and for less after the time-outs of
\* the tick have been handled
Timely ==
    \A c \in Client : client[c].pending # None =>
        /\ client[c].pending.call =< tick
        /\ tick - client[c].pending.call =< OpTimeout
        /\ phase = "step" => tick - client[c].pending.call < OpTimeout

\* The inductive invariant
ClientInv == TypeOK /\ Timely

-----------------------------------------------------------------------------
(***************************************************************************)
(* The methods of a client.                                                *)
(***************************************************************************)

\* What a client can hold, in a log of a length
GoodClient(cl, length) ==
    /\ cl \in ClientState
    /\ cl.safe \in 0..length
    /\ cl.safe # 0 => Waits(cl, "R")

\* A client that has been freed
LEMMA FreeIsGood ==
    ASSUME NEW length \in Nat, NEW cl \in ClientState
    PROVE  GoodClient(Free(cl), length) /\ Free(cl).pending = None
<1>1. Free(cl) \in ClientState
  BY DEF Free, ClientState
<1>2. Free(cl).safe = 0 /\ Free(cl).pending = None
  BY DEF Free, ClientState
<1>3. 0 \in 0..length
  OBVIOUS
<1> QED
  BY <1>1, <1>2, <1>3 DEF GoodClient

\* An operation that has ended
LEMMA EndedType ==
    ASSUME NEW cl \in ClientState, cl.pending # None, NEW ok \in BOOLEAN,
           NEW out \in Nat, NEW at \in Nat
    PROVE  Ended(cl, ok, out, at) \in Op
<1>1. cl.pending \in Op
  BY DEF ClientState
<1> QED
  BY <1>1 DEF Ended, Op

\* An operation that is issued
LEMMA NewOpType ==
    ASSUME NEW c \in Client, NEW cl \in ClientState, NEW kind \in {"W", "R"}, tick \in Nat
    PROVE  /\ NewOp(c, cl, kind) \in Op
           /\ NewOp(c, cl, kind).call = tick /\ NewOp(c, cl, kind).kind = kind
           /\ NewOp(c, cl, kind) # None
<1>1. cl.nextOp + 1 \in Nat /\ cl.nextVal + 1 \in Nat
  BY DEF ClientState
<1>2. NewOp(c, cl, kind) \in Op
  BY <1>1 DEF NewOp, Op
<1> QED
  BY <1>2, ClientAssumption DEF NewOp

\* The client that issues it
LEMMA IssueIsGood ==
    ASSUME NEW length \in Nat, NEW c \in Client, NEW cl, GoodClient(cl, length),
           cl.pending = None, NEW kind \in {"W", "R"}, NEW accepted \in BOOLEAN, tick \in Nat
    PROVE  /\ GoodClient(Issue(c, cl, kind, accepted), length)
           /\ Issue(c, cl, kind, accepted).pending \in {None, NewOp(c, cl, kind)}
<1> DEFINE new == Issue(c, cl, kind, accepted)
<1>1. cl \in ClientState /\ cl.safe = 0
  BY DEF GoodClient, Waits
<1>2. cl.nextOp + 1 \in Nat /\ cl.nextVal + 1 \in Nat
  BY <1>1 DEF ClientState
<1>3. NewOp(c, cl, kind) \in Op
  BY <1>1, NewOpType
<1>4. new \in ClientState /\ new.safe = 0 /\ new.pending \in {None, NewOp(c, cl, kind)}
  BY <1>1, <1>2, <1>3 DEF Issue, ClientState
<1> QED
  BY <1>4 DEF GoodClient

\* An answer to a read is taken if it is the pending one
LEMMA ToldIsGood ==
    ASSUME NEW length \in Nat, NEW cl, GoodClient(cl, length),
           NEW answer, answer # None => answer[2] \in 0..length
    PROVE  LET told == OnReadIndexReady(cl, answer) IN
             /\ GoodClient(told, length)
             /\ told.pending = cl.pending
<1> DEFINE told == OnReadIndexReady(cl, answer)
<1>1. CASE answer # None /\ Waits(cl, "R") /\ answer[1] = cl.pending.op
  <2>1. told = [cl EXCEPT !.safe = answer[2]]
    BY <1>1 DEF OnReadIndexReady
  <2>2. told \in ClientState /\ told.pending = cl.pending /\ told.safe \in 0..length
    BY <1>1, <2>1 DEF GoodClient, ClientState
  <2> QED
    BY <1>1, <2>2 DEF GoodClient, Waits
<1>2. CASE ~ (answer # None /\ Waits(cl, "R") /\ answer[1] = cl.pending.op)
  BY <1>2 DEF OnReadIndexReady
<1> QED
  BY <1>1, <1>2

\* What a read returns is a value
LEMMA RegisterType ==
    ASSUME NEW entries \in Seq(Entry), NEW at \in 1..Len(entries), NEW safe \in Nat
    PROVE  RegisterAt(entries, at, safe) \in Nat
<1> DEFINE upTo == Min({at, safe})
           writes == {k \in 1..upTo : entries[k] # Blank}
<1>1. upTo \in Nat /\ upTo =< at
  BY MinPair
<1>2. upTo =< Len(entries) /\ Len(entries) \in Nat
  BY <1>1
<1>3. CASE writes = {}
  BY <1>3 DEF RegisterAt
<1>4. CASE writes # {}
  <2>1. writes \in SUBSET (0..upTo)
    OBVIOUS
  <2>2. Max(writes) \in writes
    <3> HIDE DEF writes, upTo
    <3> QED
      BY <1>1, <1>4, <2>1, MaxIn
  <2>3. Max(writes) \in 1..Len(entries)
    <3>1. writes \subseteq 1..Len(entries)
      BY <1>1, <1>2
    <3> HIDE DEF writes
    <3> QED
      BY <2>2, <3>1
  <2>4. entries[Max(writes)] \in Entry
    BY <2>3
  <2>5. entries[Max(writes)].val \in Nat
    BY <2>4 DEF Entry
  <2> QED
    BY <1>4, <2>5 DEF RegisterAt
<1> QED
  BY <1>3, <1>4

-----------------------------------------------------------------------------
(***************************************************************************)
(* The invariant.                                                          *)
(***************************************************************************)

\* The clients start idle.
LEMMA InitInv == Init => ClientInv
<1> SUFFICES ASSUME Init PROVE ClientInv
  OBVIOUS
<1>1. Blank \in Entry
  BY DEF Blank, Entry
<1>2. log \in Seq(Entry) /\ Len(log) = 1
  BY <1>1 DEF Init
<1>3. \A c \in Client : client[c] \in ClientState /\ client[c].safe = 0
                          /\ client[c].pending = None
  BY DEF Init, ClientState
<1>4. client \in [Client -> ClientState]
  BY <1>3 DEF Init
<1>5. applied \in [Node -> 1..Len(log)]
  BY <1>2 DEF Init
<1>6. TypeOK
  BY <1>2, <1>3, <1>4, <1>5 DEF Init, TypeOK
<1>7. Timely
  BY <1>3 DEF Timely
<1> QED
  BY <1>6, <1>7 DEF ClientInv

\* Each client as the invariant has it
LEMMA ClientsAreGood ==
    ASSUME TypeOK, NEW c \in Client
    PROVE  GoodClient(client[c], Len(log)) /\ Len(log) \in Nat
<1>1. client[c] \in ClientState /\ log \in Seq(Entry)
  BY DEF TypeOK
<1>2. Len(log) \in Nat
  BY <1>1
<1>3. client[c].safe \in 0..Len(log) /\ (client[c].safe # 0 => Waits(client[c], "R"))
  BY DEF TypeOK
<1> QED
  BY <1>1, <1>2, <1>3 DEF GoodClient

\* The time-outs of a tick leave good clients, whose operations have time left
LEMMA TimedOutIsGood ==
    ASSUME ClientInv, NEW c \in Client
    PROVE  /\ GoodClient(TimedOut[c], Len(log))
           /\ TimedOut[c].pending # None =>
                /\ TimedOut[c].pending.call =< tick
                /\ tick - TimedOut[c].pending.call < OpTimeout
<1>1. GoodClient(client[c], Len(log)) /\ Len(log) \in Nat /\ tick \in Nat
  BY ClientsAreGood DEF ClientInv, TypeOK
<1>2. client[c] \in ClientState
  BY <1>1 DEF GoodClient
<1>3. CASE c \in Late
  <2>1. TimedOut[c] = Free(client[c])
    BY <1>3 DEF TimedOut
  <2> QED
    BY <2>1, <1>1, <1>2, FreeIsGood
<1>4. CASE c \notin Late
  <2>1. TimedOut[c] = client[c]
    BY <1>4 DEF TimedOut
  <2>2. ASSUME client[c].pending # None
        PROVE  client[c].pending.call =< tick /\ tick - client[c].pending.call < OpTimeout
    <3>1. client[c].pending \in Op
      BY <1>2, <2>2 DEF ClientState
    <3>2. client[c].pending.call \in Nat
      BY <3>1 DEF Op
    <3>3. client[c].pending.call =< tick
      BY <2>2 DEF ClientInv, Timely
    <3>4. ~ (tick - client[c].pending.call >= OpTimeout)
      BY <1>4, <2>2 DEF Late, Expires
    <3> QED
      BY <3>2, <3>3, <3>4, <1>1, BoundAssumption
  <2> QED
    BY <1>1, <2>1, <2>2
<1> QED
  BY <1>3, <1>4

\* The operations that end unanswered are well formed
LEMMA DriveHistory ==
    ASSUME ClientInv, Drive
    PROVE  history' \subseteq Op
<1>1. \A c \in Late : client[c] \in ClientState /\ client[c].pending # None
  BY DEF ClientInv, TypeOK, Late, Expires
<1>2. \A c \in Late : Ended(client[c], FALSE, 0, tick) \in Op
  BY <1>1, EndedType DEF ClientInv, TypeOK
<1> QED
  BY <1>2 DEF Drive, ClientInv, TypeOK

\* The first half of a tick keeps the invariant if the clients it leaves are good
LEMMA DriveInv ==
    ASSUME ClientInv, Drive,
           inflight' \subseteq Entry, asked' \subseteq ReadRequest,
           DOMAIN client' = Client, client' = [c \in Client |-> client'[c]],
           \A c \in Client :
              /\ GoodClient(client'[c], Len(log))
              /\ client'[c].pending # None =>
                   /\ client'[c].pending.call =< tick
                   /\ tick - client'[c].pending.call < OpTimeout
    PROVE  ClientInv'
<1>1. history' \subseteq Op
  BY DriveHistory
<1>2. /\ phase' = "step" /\ tick' = tick /\ log' = log /\ applied' = applied
      /\ tick \in Nat /\ log \in Seq(Entry) /\ applied \in [Node -> 1..Len(log)]
  BY DEF Drive, ClientInv, TypeOK
<1>3. \A c \in Client : client'[c] \in ClientState
  BY DEF GoodClient
<1>4. client' \in [Client -> ClientState]
  BY <1>3
<1>5. \A c \in Client : /\ client'[c].safe \in 0..Len(log')
                        /\ client'[c].safe # 0 => Waits(client'[c], "R")
  BY <1>2 DEF GoodClient
<1>6. TypeOK'
  BY <1>1, <1>2, <1>4, <1>5 DEF TypeOK
<1>7. Timely'
  <2> SUFFICES ASSUME NEW c \in Client, client'[c].pending # None
               PROVE  /\ client'[c].pending.call =< tick
                      /\ tick - client'[c].pending.call =< OpTimeout
                      /\ tick - client'[c].pending.call < OpTimeout
    BY <1>2 DEF Timely
  <2>1. client'[c].pending \in Op
    BY <1>3 DEF ClientState
  <2>2. client'[c].pending.call \in Nat /\ OpTimeout \in Nat
    BY <2>1, BoundAssumption DEF Op
  <2> QED
    BY <2>2, <1>2
<1> QED
  BY <1>6, <1>7 DEF ClientInv

\* Nobody issues anything.
LEMMA DriveOnlyInv == ClientInv /\ DriveOnly => ClientInv'
<1> SUFFICES ASSUME ClientInv, DriveOnly PROVE ClientInv'
  OBVIOUS
<1>1. client' = TimedOut /\ DOMAIN TimedOut = Client
  BY DEF DriveOnly, TimedOut
<1>2. client' = [c \in Client |-> client'[c]]
  BY <1>1 DEF TimedOut
<1>3. Drive /\ inflight' \subseteq Entry /\ asked' \subseteq ReadRequest
  BY DEF DriveOnly, ClientInv, TypeOK
<1>4. \A c \in Client :
        /\ GoodClient(client'[c], Len(log))
        /\ client'[c].pending # None =>
             /\ client'[c].pending.call =< tick
             /\ tick - client'[c].pending.call < OpTimeout
  BY <1>1, TimedOutIsGood
<1> QED
  BY <1>1, <1>2, <1>3, <1>4, DriveInv

\* The client that issues an operation, and the others
LEMMA IssuedIsGood ==
    ASSUME ClientInv, NEW c \in Client, NEW kind \in {"W", "R"}, NEW accepted \in BOOLEAN,
           TimedOut[c].pending = None,
           client' = [TimedOut EXCEPT ![c] = Issue(c, @, kind, accepted)]
    PROVE  /\ DOMAIN client' = Client /\ client' = [d \in Client |-> client'[d]]
           /\ \A d \in Client :
                /\ GoodClient(client'[d], Len(log))
                /\ client'[d].pending # None =>
                     /\ client'[d].pending.call =< tick
                     /\ tick - client'[d].pending.call < OpTimeout
<1>1. DOMAIN client' = Client /\ client' = [d \in Client |-> client'[d]]
  BY DEF TimedOut
<1>2. \A d \in Client : client'[d] = IF d = c THEN Issue(c, TimedOut[c], kind, accepted)
                                     ELSE TimedOut[d]
  BY DEF TimedOut
<1>3. tick \in Nat /\ Len(log) \in Nat
  BY DEF ClientInv, TypeOK
<1>4. GoodClient(TimedOut[c], Len(log))
  BY TimedOutIsGood
<1>5. /\ GoodClient(Issue(c, TimedOut[c], kind, accepted), Len(log))
      /\ Issue(c, TimedOut[c], kind, accepted).pending
            \in {None, NewOp(c, TimedOut[c], kind)}
  BY <1>3, <1>4, IssueIsGood
<1>6. NewOp(c, TimedOut[c], kind).call = tick
  BY DEF NewOp
<1>7. tick =< tick /\ tick - tick < OpTimeout
  BY <1>3, BoundAssumption
<1>8. ASSUME NEW d \in Client
      PROVE  /\ GoodClient(client'[d], Len(log))
             /\ client'[d].pending # None =>
                  /\ client'[d].pending.call =< tick
                  /\ tick - client'[d].pending.call < OpTimeout
  <2>1. CASE d = c
    BY <2>1, <1>2, <1>5, <1>6, <1>7
  <2>2. CASE d # c
    BY <2>2, <1>2, TimedOutIsGood
  <2> QED
    BY <2>1, <2>2
<1> QED
  BY <1>1, <1>8

\* A client writes.
LEMMA DriveWriteInv ==
    ASSUME ClientInv, NEW c \in Client, NEW accepted \in BOOLEAN, DriveWrite(c, accepted)
    PROVE  ClientInv'
<1>1. /\ Drive /\ TimedOut[c].pending = None /\ asked' = asked
      /\ client' = [TimedOut EXCEPT ![c] = Issue(c, @, "W", accepted)]
      /\ inflight' = inflight \cup
                       IF accepted THEN Proposals(NewOp(c, TimedOut[c], "W")) ELSE {}
  BY DEF DriveWrite, MayIssue
<1>2. TimedOut[c] \in ClientState /\ tick \in Nat
  BY TimedOutIsGood DEF GoodClient, ClientInv, TypeOK
<1>3. NewOp(c, TimedOut[c], "W") \in Op
  BY <1>2, NewOpType
<1>4. Proposals(NewOp(c, TimedOut[c], "W")) \subseteq Entry
  BY <1>3 DEF Proposals, Op, Entry
<1>5. inflight' \subseteq Entry /\ asked' \subseteq ReadRequest
  BY <1>1, <1>4 DEF ClientInv, TypeOK
<1>6. /\ DOMAIN client' = Client /\ client' = [d \in Client |-> client'[d]]
      /\ \A d \in Client :
           /\ GoodClient(client'[d], Len(log))
           /\ client'[d].pending # None =>
                /\ client'[d].pending.call =< tick
                /\ tick - client'[d].pending.call < OpTimeout
  BY <1>1, IssuedIsGood
<1> QED
  BY <1>1, <1>5, <1>6, DriveInv

\* A client reads.
LEMMA DriveReadInv ==
    ASSUME ClientInv, NEW c \in Client, DriveRead(c)
    PROVE  ClientInv'
<1>1. /\ Drive /\ TimedOut[c].pending = None /\ inflight' = inflight
      /\ client' = [TimedOut EXCEPT ![c] = Issue(c, @, "R", TRUE)]
      /\ asked' = asked \cup
                    {[client |-> c, op |-> TimedOut[c].nextOp + 1, min |-> Len(log)]}
  BY DEF DriveRead, MayIssue
<1>2. TimedOut[c] \in ClientState /\ Len(log) \in Nat
  BY TimedOutIsGood DEF GoodClient, ClientInv, TypeOK
<1>3. TimedOut[c].nextOp + 1 \in Nat
  BY <1>2 DEF ClientState
<1>4. inflight' \subseteq Entry /\ asked' \subseteq ReadRequest
  BY <1>1, <1>2, <1>3 DEF ClientInv, TypeOK, ReadRequest
<1>5. /\ DOMAIN client' = Client /\ client' = [d \in Client |-> client'[d]]
      /\ \A d \in Client :
           /\ GoodClient(client'[d], Len(log))
           /\ client'[d].pending # None =>
                /\ client'[d].pending.call =< tick
                /\ tick - client'[d].pending.call < OpTimeout
  BY <1>1, IssuedIsGood
<1> QED
  BY <1>1, <1>4, <1>5, DriveInv

-----------------------------------------------------------------------------
(***************************************************************************)
(* The second half of a tick.                                              *)
(***************************************************************************)

\* The log grows by what is committed, and the nodes move along it
LEMMA StepLog ==
    ASSUME TypeOK, Step
    PROVE  /\ log' \in Seq(Entry) /\ Len(log) =< Len(log')
           /\ \A k \in 1..Len(log) : log'[k] = log[k]
           /\ inflight' \subseteq Entry
           /\ applied' \in [Node -> 1..Len(log')]
           /\ \A n \in Node : applied[n] =< applied'[n]
<1>1. PICK batch \in UNION {kSubset(k, inflight \cup {Blank}) : k \in 0..MaxCommits} :
         /\ inflight' = inflight \ batch
         /\ \E order \in SetToSeqs(batch) : log' = log \o order
  BY DEF Step
<1>2. PICK order \in SetToSeqs(batch) : log' = log \o order
  BY <1>1
<1>3. batch \subseteq Entry /\ Cardinality(batch) \in Nat
  <2>1. PICK k \in 0..MaxCommits : batch \in kSubset(k, inflight \cup {Blank})
    OBVIOUS
  <2>2. Blank \in Entry
    BY DEF Blank, Entry
  <2> QED
    BY <2>1, <2>2, BoundAssumption DEF kSubset, TypeOK
<1>4. order \in [1..Cardinality(batch) -> Entry]
  BY <1>3 DEF SetToSeqs
<1>5. order \in Seq(Entry)
  BY <1>3, <1>4
<1>6. log \in Seq(Entry)
  BY DEF TypeOK
<1>7. /\ log' \in Seq(Entry) /\ Len(log) =< Len(log')
      /\ \A k \in 1..Len(log) : log'[k] = log[k]
  BY <1>2, <1>5, <1>6
<1>8. applied' \in [Node -> 1..Len(log')] /\ inflight' \subseteq Entry
  BY <1>1 DEF Step, TypeOK
<1>9. \A n \in Node : applied[n] =< applied'[n]
  BY <1>7, <1>6, <1>8 DEF Step, AppliedUpTo, TypeOK
<1> QED
  BY <1>7, <1>8, <1>9

\* An answer to a read lies in the log
LEMMA AnswerInLog ==
    ASSUME TypeOK, NEW c \in Client, NEW commit \in Nat,
           NEW answer \in Answers(c, commit), answer # None
    PROVE  answer[2] \in 0..commit
<1>1. PICK r \in asked : \E k \in r.min..commit : answer = <<r.op, k>>
  BY DEF Answers
<1>2. r.min \in Nat
  BY DEF TypeOK, ReadRequest
<1> QED
  BY <1>1, <1>2

\* Entries are committed and applied, reads are answered.
LEMMA StepInv == ClientInv /\ Step => ClientInv'
<1> SUFFICES ASSUME ClientInv, Step PROVE ClientInv'
  OBVIOUS
<1>1. /\ phase = "step" /\ phase' = "drive" /\ tick' = tick + 1 /\ asked' = asked
      /\ TypeOK /\ tick \in Nat
  BY DEF Step, ClientInv, TypeOK
<1>2. /\ log' \in Seq(Entry) /\ Len(log) =< Len(log')
      /\ inflight' \subseteq Entry
      /\ applied' \in [Node -> 1..Len(log')]
  BY <1>1, StepLog
<1>3. Len(log) \in Nat /\ Len(log') \in Nat
  BY <1>1, <1>2 DEF TypeOK
<1>4. PICK answers \in [Client -> UNION {Answers(c, Len(log')) : c \in Client}] :
         /\ \A c \in Client : answers[c] \in Answers(c, Len(log'))
         /\ Serve(log', applied', answers)
  BY DEF Step
<1> DEFINE fresh == NewlyApplied(log', applied') \ {Blank}
           told == [c \in Client |-> OnReadIndexReady(client[c], answers[c])]
           written == {c \in Client : OnWriteCommitted(client[c], fresh)}
           read == {c \in Client : PollRead(told[c], applied'[Prefer[c]])}
           value(c) == RegisterAt(log', applied'[Prefer[c]], told[c].safe)
<1>5. /\ client' = [c \in Client |-> IF c \in written \cup read THEN Free(told[c])
                                     ELSE told[c]]
      /\ history' = history
            \cup {Ended(client[c], TRUE, 0, tick') : c \in written}
            \cup {Ended(client[c], TRUE, value(c), tick') : c \in read}
  BY <1>4 DEF Serve
<1>6. ASSUME NEW c \in Client
      PROVE  /\ GoodClient(told[c], Len(log')) /\ told[c] \in ClientState
             /\ told[c].pending = client[c].pending /\ client[c] \in ClientState
  <2>1. GoodClient(client[c], Len(log'))
    BY <1>1, <1>2, <1>3, ClientsAreGood DEF GoodClient
  <2>2. answers[c] # None => answers[c][2] \in 0..Len(log')
    BY <1>1, <1>3, <1>4, AnswerInLog
  <2>3. /\ GoodClient(OnReadIndexReady(client[c], answers[c]), Len(log'))
        /\ OnReadIndexReady(client[c], answers[c]).pending = client[c].pending
    BY <2>1, <2>2, <1>3, ToldIsGood
  <2> QED
    BY <2>1, <2>3 DEF GoodClient
<1>7. ASSUME NEW c \in Client
      PROVE  /\ GoodClient(client'[c], Len(log'))
             /\ client'[c].pending \in {None, client[c].pending}
  <2>1. /\ GoodClient(Free(told[c]), Len(log')) /\ Free(told[c]).pending = None
    BY <1>3, <1>6, FreeIsGood
  <2>2. client'[c] \in {Free(told[c]), told[c]}
    <3> HIDE DEF told, written, read
    <3> QED
      BY <1>5
  <2> HIDE DEF told
  <2> QED
    BY <2>1, <2>2, <1>6
<1>8. client' \in [Client -> ClientState]
  <2>1. DOMAIN client' = Client /\ client' = [c \in Client |-> client'[c]]
    BY <1>5
  <2> QED
    BY <2>1, <1>7 DEF GoodClient
<1>9. \A c \in written : Ended(client[c], TRUE, 0, tick') \in Op
  <2> SUFFICES ASSUME NEW c \in written PROVE Ended(client[c], TRUE, 0, tick') \in Op
    OBVIOUS
  <2>1. c \in Client /\ client[c].pending # None
    BY DEF OnWriteCommitted, Waits
  <2>2. tick' \in Nat
    BY <1>1
  <2> QED
    BY <2>1, <2>2, <1>6, EndedType
<1>10. \A c \in read : Ended(client[c], TRUE, value(c), tick') \in Op
  <2> SUFFICES ASSUME NEW c \in read PROVE Ended(client[c], TRUE, value(c), tick') \in Op
    OBVIOUS
  <2>1. c \in Client /\ told[c].pending # None
    BY DEF PollRead, Waits
  <2>2. client[c].pending # None /\ client[c] \in ClientState /\ told[c] \in ClientState
    <3> HIDE DEF told, read
    <3> QED
      BY <2>1, <1>6
  <2>3. tick' \in Nat
    BY <1>1
  <2>4. told[c].safe \in Nat
    <3> HIDE DEF told
    <3> QED
      BY <2>2 DEF ClientState
  <2>5. applied'[Prefer[c]] \in 1..Len(log')
    BY <2>1, <1>2, ClientAssumption
  <2>6. value(c) \in Nat
    <3> HIDE DEF told
    <3> QED
      BY <2>4, <2>5, <1>2, RegisterType
  <2> QED
    <3> HIDE DEF value
    <3> QED
      BY <2>1, <2>2, <2>3, <2>6, EndedType
<1>11. history' \subseteq Op
  <2> HIDE DEF written, read, value
  <2> QED
    BY <1>1, <1>5, <1>9, <1>10 DEF TypeOK
<1>12. TypeOK'
  <2>1. \A c \in Client : /\ client'[c].safe \in 0..Len(log')
                          /\ client'[c].safe # 0 => Waits(client'[c], "R")
    BY <1>7 DEF GoodClient
  <2>2. tick' \in Nat /\ phase' \in {"drive", "step"} /\ asked' \subseteq ReadRequest
    BY <1>1 DEF TypeOK
  <2> QED
    BY <2>1, <2>2, <1>2, <1>8, <1>11 DEF TypeOK
<1>13. Timely'
  <2> SUFFICES ASSUME NEW c \in Client, client'[c].pending # None
               PROVE  /\ client'[c].pending.call =< tick'
                      /\ tick' - client'[c].pending.call =< OpTimeout
    BY <1>1 DEF Timely
  <2>1. client'[c].pending = client[c].pending /\ client[c].pending # None
    BY <1>7
  <2>2. /\ client[c].pending.call =< tick
        /\ tick - client[c].pending.call < OpTimeout
    BY <2>1, <1>1 DEF ClientInv, Timely
  <2>3. client[c].pending \in Op
    BY <2>1, <1>6 DEF ClientState
  <2>4. client[c].pending.call \in Nat /\ OpTimeout \in Nat
    BY <2>3, BoundAssumption DEF Op
  <2> QED
    BY <2>1, <2>2, <2>4, <1>1
<1> QED
  BY <1>12, <1>13 DEF ClientInv

\* The invariant is inductive.
LEMMA NextInv == ClientInv /\ [Next]_vars => ClientInv'
<1> SUFFICES ASSUME ClientInv, [Next]_vars PROVE ClientInv'
  OBVIOUS
<1>1. CASE DriveOnly
  BY <1>1, DriveOnlyInv
<1>2. CASE \E c \in Client, accepted \in BOOLEAN : DriveWrite(c, accepted)
  BY <1>2, DriveWriteInv
<1>3. CASE \E c \in Client : DriveRead(c)
  BY <1>3, DriveReadInv
<1>4. CASE Step
  BY <1>4, StepInv
<1>5. CASE UNCHANGED vars
  BY <1>5 DEF vars, ClientInv, TypeOK, Timely
<1> QED
  BY <1>1, <1>2, <1>3, <1>4, <1>5 DEF Next

\* Every behaviour satisfies the invariant.
LEMMA ClientInvariant == Spec => []ClientInv
  BY InitInv, NextInv, PTL DEF Spec

\* Every field of the clients and of their history keeps its type, and a safe index belongs
\* to the read that is pending (Client, Op).
THEOREM ClientTypes == Spec => []TypeOK
<1>1. ClientInv => TypeOK
  BY DEF ClientInv
<1> QED
  BY <1>1, ClientInvariant, PTL

\* No operation keeps its client for longer than the time-out, whatever raft does or fails
\* to do with it (Client.Tick, Scenario.Drive).
THEOREM OperationsAlwaysEnd == Spec => []OperationsEnd
<1>1. ClientInv => OperationsEnd
  BY DEF ClientInv, Timely, OperationsEnd
<1> QED
  BY <1>1, ClientInvariant, PTL

-----------------------------------------------------------------------------
(***************************************************************************)
(* What a read returns.                                                    *)
(***************************************************************************)

\* A node that has applied the safe index serves the register at that index
LEMMA RegisterAtSafe ==
    ASSUME NEW entries, NEW at \in Nat, NEW safe \in Nat, at >= safe
    PROVE  RegisterAt(entries, at, safe) = RegisterAt(entries, safe, safe)
<1>1. Min({at, safe}) = safe /\ Min({safe, safe}) = safe
  BY MinPair
<1> QED
  BY <1>1 DEF RegisterAt

\* The register at an index stays what it is while the log grows
LEMMA RegisterStays ==
    ASSUME NEW s \in Seq(Entry), NEW t \in Seq(Entry), \A k \in 1..Len(s) : t[k] = s[k],
           NEW at \in 0..Len(s)
    PROVE  RegisterAt(t, at, at) = RegisterAt(s, at, at)
<1> DEFINE upTo == Min({at, at})
           of(entries) == {k \in 1..upTo : entries[k] # Blank}
<1>1. upTo = at
  BY MinPair
<1>2. \A k \in 1..upTo : t[k] = s[k]
  <2> HIDE DEF upTo
  <2> QED
    BY <1>1
<1>3. of(t) = of(s)
  <2> HIDE DEF upTo
  <2> QED
    BY <1>2
<1>4. CASE of(s) = {}
  BY <1>3, <1>4 DEF RegisterAt
<1>5. CASE of(s) # {}
  <2>1. Max(of(s)) \in of(s)
    <3>1. of(s) \in SUBSET (0..upTo) /\ upTo \in Nat
      BY <1>1
    <3> HIDE DEF of, upTo
    <3> QED
      BY <1>5, <3>1, MaxIn
  <2>2. t[Max(of(s))] = s[Max(of(s))]
    <3>1. of(s) \subseteq 1..upTo
      OBVIOUS
    <3> HIDE DEF of, upTo
    <3> QED
      BY <1>2, <2>1, <3>1
  <2>3. t[Max(of(t))].val = s[Max(of(s))].val
    <3> HIDE DEF of
    <3> QED
      BY <1>3, <2>2
  <2> QED
    BY <1>3, <1>5, <2>3 DEF RegisterAt
<1> QED
  BY <1>4, <1>5

\* The numbers of the operations: a pending operation has its client's last one, one that
\* has ended has no later one, and no two requests of a client have the same
Numbered ==
    /\ \A c \in Client : client[c].pending # None =>
          client[c].pending.client = c /\ client[c].pending.op = client[c].nextOp
    /\ \A op \in history : op.op =< client[op.client].nextOp
    /\ \A r \in asked : r.op =< client[r.client].nextOp /\ r.min =< Len(log)
    /\ \A r, q \in asked : r.client = q.client /\ r.op = q.op => r = q

\* A safe index is not below what was committed when the pending read was asked for
SafeEnough ==
    \A c \in Client, r \in asked :
        client[c].safe # 0 /\ r.client = c /\ r.op = client[c].pending.op =>
            r.min =< client[c].safe

FreshInv == ClientInv /\ Numbered /\ SafeEnough /\ ReadsAreFresh

\* A client after the time-outs of a tick: idle, or as it was
LEMMA TimedOutClient ==
    ASSUME TypeOK, NEW c \in Client
    PROVE  /\ TimedOut[c] \in ClientState /\ client[c] \in ClientState
           /\ TimedOut[c].nextOp = client[c].nextOp
           /\ \/ TimedOut[c].pending = None /\ TimedOut[c].safe = 0
              \/ TimedOut[c] = client[c]
<1>1. client[c] \in ClientState
  BY DEF TypeOK
<1>2. /\ Free(client[c]) \in ClientState /\ Free(client[c]).pending = None
      /\ Free(client[c]).safe = 0 /\ Free(client[c]).nextOp = client[c].nextOp
  BY <1>1 DEF Free, ClientState
<1> QED
  BY <1>1, <1>2 DEF TimedOut

\* What a step may do to the operations and the requests, whatever else it does
KeepsNumbers ==
    /\ \A c \in Client :
          /\ client'[c].nextOp >= client[c].nextOp
          /\ client'[c].pending # None =>
                client'[c].pending.client = c /\ client'[c].pending.op = client'[c].nextOp
    /\ \A op \in history' \ history :
          \E c \in Client : /\ client[c].pending # None
                            /\ op.client = c /\ op.op = client[c].pending.op
    /\ \A r \in asked' \ asked :
          /\ r.op = client[r.client].nextOp + 1 /\ client'[r.client].nextOp = r.op
          /\ r.min = Len(log)
          /\ \A q \in asked' \ asked : q = r

LEMMA NumberedStep ==
    ASSUME FreshInv, TypeOK', KeepsNumbers, Len(log) =< Len(log')
    PROVE  Numbered'
<1>1. /\ \A c \in Client : client[c].nextOp \in Nat /\ client'[c].nextOp \in Nat
      /\ Len(log) \in Nat /\ Len(log') \in Nat
      /\ \A r \in asked \cup asked' : r.client \in Client /\ r.op \in Nat /\ r.min \in Nat
      /\ \A op \in history \cup history' : op.client \in Client /\ op.op \in Nat
  BY DEF FreshInv, ClientInv, TypeOK, ClientState, ReadRequest, Op
<1>2. \A c \in Client : client'[c].pending # None =>
          client'[c].pending.client = c /\ client'[c].pending.op = client'[c].nextOp
  BY DEF KeepsNumbers
<1>3. ASSUME NEW op \in history'
      PROVE  op.op =< client'[op.client].nextOp
  <2>1. op.op =< client[op.client].nextOp
    <3>1. CASE op \in history
      BY <3>1 DEF FreshInv, Numbered
    <3>2. CASE op \notin history
      <4>1. PICK c \in Client : /\ client[c].pending # None
                                /\ op.client = c /\ op.op = client[c].pending.op
        BY <3>2 DEF KeepsNumbers
      <4>2. op.op = client[c].nextOp
        BY <4>1 DEF FreshInv, Numbered
      <4> QED
        BY <4>1, <4>2, <1>1
    <3> QED
      BY <3>1, <3>2
  <2>2. op.client \in Client /\ client'[op.client].nextOp >= client[op.client].nextOp
    BY <1>1 DEF KeepsNumbers
  <2> QED
    BY <2>1, <2>2, <1>1
<1>4. ASSUME NEW r \in asked'
      PROVE  r.op =< client'[r.client].nextOp /\ r.min =< Len(log')
  <2>1. CASE r \in asked
    <3>1. r.op =< client[r.client].nextOp /\ r.min =< Len(log)
      BY <2>1 DEF FreshInv, Numbered
    <3>2. client'[r.client].nextOp >= client[r.client].nextOp
      BY <1>1 DEF KeepsNumbers
    <3> QED
      BY <3>1, <3>2, <1>1
  <2>2. CASE r \notin asked
    <3>1. client'[r.client].nextOp = r.op /\ r.min = Len(log)
      BY <2>2 DEF KeepsNumbers
    <3> QED
      BY <3>1, <1>1
  <2> QED
    BY <2>1, <2>2
<1>5. ASSUME NEW r \in asked', NEW q \in asked', r.client = q.client, r.op = q.op
      PROVE  r = q
  <2>1. \A x \in asked : x.op =< client[x.client].nextOp
    BY DEF FreshInv, Numbered
  <2>2. \A x \in asked' : x \notin asked => x.op = client[x.client].nextOp + 1
    BY DEF KeepsNumbers
  <2>3. client[r.client].nextOp \in Nat /\ r.op \in Nat
    BY <1>1
  <2>4. r \in asked <=> q \in asked
    BY <1>5, <2>1, <2>2, <2>3
  <2>5. CASE r \in asked
    BY <1>5, <2>4, <2>5 DEF FreshInv, Numbered
  <2>6. CASE r \notin asked
    BY <2>4, <2>6 DEF KeepsNumbers
  <2> QED
    BY <2>5, <2>6
<1> QED
  BY <1>2, <1>3, <1>4, <1>5 DEF Numbered

\* Reads that were answered stay right, if those that are answered now are
LEMMA FreshStep ==
    ASSUME FreshInv, TypeOK', KeepsNumbers,
           Len(log) =< Len(log'), \A k \in 1..Len(log) : log'[k] = log[k],
           \A op \in history' \ history, r \in asked :
              op.kind = "R" /\ op.ok /\ r.client = op.client /\ r.op = op.op =>
                 \E k \in r.min..Len(log') : op.out = RegisterAt(log', k, k)
    PROVE  ReadsAreFresh'
<1>1. SUFFICES ASSUME NEW op \in history', NEW r \in asked', op.kind = "R", op.ok,
                      r.client = op.client, r.op = op.op
               PROVE  \E k \in r.min..Len(log') : op.out = RegisterAt(log', k, k)
  BY DEF ReadsAreFresh
<1>2. /\ log \in Seq(Entry) /\ log' \in Seq(Entry) /\ op.client \in Client
      /\ client[op.client].nextOp \in Nat /\ r.op \in Nat /\ r.min \in Nat
  BY DEF FreshInv, ClientInv, TypeOK, ClientState, ReadRequest, Op
<1>3. Len(log) \in Nat /\ Len(log') \in Nat
  BY <1>2
<1>4. op.op =< client[op.client].nextOp
  <2>1. CASE op \in history
    BY <2>1 DEF FreshInv, Numbered
  <2>2. CASE op \notin history
    <3>1. PICK c \in Client : /\ client[c].pending # None
                              /\ op.client = c /\ op.op = client[c].pending.op
      BY <2>2 DEF KeepsNumbers
    <3>2. op.op = client[c].nextOp
      BY <3>1 DEF FreshInv, Numbered
    <3> QED
      BY <3>1, <3>2, <1>2
  <2> QED
    BY <2>1, <2>2
<1>5. r \in asked
  <2> SUFFICES ASSUME r \notin asked PROVE FALSE
    OBVIOUS
  <2>1. r.op = client[r.client].nextOp + 1
    BY DEF KeepsNumbers
  <2> QED
    BY <2>1, <1>1, <1>2, <1>4
<1>6. CASE op \in history
  <2>1. PICK k \in r.min..Len(log) : op.out = RegisterAt(log, k, k)
    BY <1>1, <1>5, <1>6 DEF FreshInv, ReadsAreFresh
  <2>2. k \in 0..Len(log) /\ k \in r.min..Len(log')
    BY <1>2, <1>3
  <2>3. RegisterAt(log', k, k) = RegisterAt(log, k, k)
    BY <1>2, <2>2, RegisterStays
  <2> QED
    BY <2>1, <2>2, <2>3
<1>7. CASE op \notin history
  BY <1>1, <1>5, <1>7
<1> QED
  BY <1>6, <1>7

\* The first half of a tick: nothing is answered
LEMMA DriveFresh ==
    ASSUME FreshInv, ClientInv', Drive,
           \A c \in Client :
              \/ client'[c] = TimedOut[c]
              \/ /\ client'[c].nextOp = client[c].nextOp + 1 /\ client'[c].safe = 0
                 /\ client'[c].pending # None =>
                      client'[c].pending.client = c
                        /\ client'[c].pending.op = client'[c].nextOp,
           \A r \in asked' \ asked :
              /\ r.op = client[r.client].nextOp + 1 /\ client'[r.client].nextOp = r.op
              /\ client'[r.client].safe = 0
              /\ r.min = Len(log)
              /\ \A q \in asked' \ asked : q = r
    PROVE  FreshInv'
<1>1. TypeOK /\ TypeOK' /\ log' = log
      /\ history' = history \cup {Ended(client[c], FALSE, 0, tick) : c \in Late}
  BY DEF FreshInv, ClientInv, Drive
<1>2. Len(log) \in Nat
  BY <1>1 DEF TypeOK
<1>3. ASSUME NEW op \in history' \ history
      PROVE  /\ ~op.ok
             /\ \E c \in Client : /\ client[c].pending # None
                                  /\ op.client = c /\ op.op = client[c].pending.op
  <2>1. PICK c \in Late : op = Ended(client[c], FALSE, 0, tick)
    BY <1>1
  <2>2. c \in Client /\ client[c].pending # None /\ client[c] \in ClientState
    BY <1>1 DEF Late, Expires, TypeOK
  <2>3. client[c].pending.client = c
    BY <2>2 DEF FreshInv, Numbered
  <2>4. client[c].pending \in Op
    BY <2>2 DEF ClientState
  <2>5. op.client = client[c].pending.client /\ op.op = client[c].pending.op /\ op.ok = FALSE
    BY <2>1, <2>4 DEF Ended, Op
  <2> QED
    BY <2>2, <2>3, <2>5
<1>4. ASSUME NEW c \in Client
      PROVE  /\ client'[c].nextOp >= client[c].nextOp
             /\ client'[c].pending # None =>
                   client'[c].pending.client = c /\ client'[c].pending.op = client'[c].nextOp
  <2>1. /\ TimedOut[c].nextOp = client[c].nextOp /\ client[c].nextOp \in Nat
        /\ \/ TimedOut[c].pending = None
           \/ TimedOut[c] = client[c]
    BY <1>1, TimedOutClient DEF ClientState
  <2>2. client[c].pending # None =>
          client[c].pending.client = c /\ client[c].pending.op = client[c].nextOp
    BY DEF FreshInv, Numbered
  <2> QED
    BY <2>1, <2>2
<1>5. KeepsNumbers
  BY <1>3, <1>4 DEF KeepsNumbers
<1>6. Numbered'
  BY <1>1, <1>2, <1>5, NumberedStep
<1>7. ReadsAreFresh'
  <2>1. \A op \in history' \ history, r \in asked :
          op.kind = "R" /\ op.ok /\ r.client = op.client /\ r.op = op.op =>
             \E k \in r.min..Len(log') : op.out = RegisterAt(log', k, k)
    BY <1>3
  <2>2. Len(log) =< Len(log') /\ \A k \in 1..Len(log) : log'[k] = log[k]
    BY <1>1, <1>2
  <2> QED
    BY <1>1, <1>5, <2>1, <2>2, FreshStep
<1>8. SafeEnough'
  <2> SUFFICES ASSUME NEW c \in Client, NEW r \in asked', client'[c].safe # 0, r.client = c,
                      r.op = client'[c].pending.op
               PROVE  r.min =< client'[c].safe
    BY DEF SafeEnough
  <2>1. client'[c] = client[c]
    BY <1>1, TimedOutClient
  <2>2. r \in asked
    OBVIOUS
  <2> QED
    BY <2>1, <2>2 DEF FreshInv, SafeEnough
<1> QED
  BY <1>6, <1>7, <1>8 DEF FreshInv

\* The fields of a client that issues an operation
LEMMA IssueFields ==
    ASSUME NEW c \in Client, NEW cl \in ClientState, cl.safe = 0,
           NEW kind \in {"W", "R"}, NEW accepted \in BOOLEAN
    PROVE  LET new == Issue(c, cl, kind, accepted) IN
             /\ new.nextOp = cl.nextOp + 1 /\ new.safe = 0
             /\ new.pending # None => new.pending.client = c /\ new.pending.op = new.nextOp
<1> DEFINE new == Issue(c, cl, kind, accepted)
<1>1. /\ new.nextOp = cl.nextOp + 1 /\ new.safe = 0
      /\ new.pending = IF accepted THEN NewOp(c, cl, kind) ELSE None
  BY DEF Issue, ClientState
<1>2. NewOp(c, cl, kind).client = c /\ NewOp(c, cl, kind).op = cl.nextOp + 1
  BY DEF NewOp
<1> HIDE DEF new
<1>3. new.pending # None => new.pending.client = c /\ new.pending.op = new.nextOp
  BY <1>1, <1>2
<1> QED
  BY <1>1, <1>3 DEF new

\* The clients when one of them issues an operation
LEMMA IssuedFresh ==
    ASSUME FreshInv, NEW c \in Client, NEW kind \in {"W", "R"}, NEW accepted \in BOOLEAN,
           TimedOut[c].pending = None,
           client' = [TimedOut EXCEPT ![c] = Issue(c, @, kind, accepted)],
           NEW d \in Client
    PROVE  /\ \/ client'[d] = TimedOut[d]
              \/ /\ client'[d].nextOp = client[d].nextOp + 1 /\ client'[d].safe = 0
                 /\ client'[d].pending # None =>
                      client'[d].pending.client = d
                        /\ client'[d].pending.op = client'[d].nextOp
           /\ d = c => client'[d].nextOp = client[d].nextOp + 1 /\ client'[d].safe = 0
<1>1. DOMAIN TimedOut = Client
  BY DEF TimedOut
<1>2. TypeOK
  BY DEF FreshInv, ClientInv
<1>3. CASE d # c
  BY <1>1, <1>3
<1>4. CASE d = c
  <2>1. client'[c] = Issue(c, TimedOut[c], kind, accepted)
    BY <1>1
  <2>2. TimedOut[c] \in ClientState /\ TimedOut[c].nextOp = client[c].nextOp
    BY <1>2, TimedOutClient
  <2>3. GoodClient(TimedOut[c], Len(log))
    BY TimedOutIsGood DEF FreshInv
  <2>4. TimedOut[c].safe = 0
    BY <2>3 DEF GoodClient, Waits
  <2>5. /\ client'[c].nextOp = TimedOut[c].nextOp + 1 /\ client'[c].safe = 0
        /\ client'[c].pending # None =>
             client'[c].pending.client = c /\ client'[c].pending.op = client'[c].nextOp
    BY <2>1, <2>2, <2>4, IssueFields
  <2> QED
    BY <1>4, <2>2, <2>5
<1> QED
  BY <1>3, <1>4

LEMMA DriveOnlyFresh == FreshInv /\ ClientInv' /\ DriveOnly => FreshInv'
<1> SUFFICES ASSUME FreshInv, ClientInv', DriveOnly PROVE FreshInv'
  OBVIOUS
<1>1. Drive /\ client' = TimedOut /\ asked' = asked
  BY DEF DriveOnly
<1> QED
  BY <1>1, DriveFresh

LEMMA DriveWriteFresh ==
    ASSUME FreshInv, ClientInv', NEW c \in Client, NEW accepted \in BOOLEAN,
           DriveWrite(c, accepted)
    PROVE  FreshInv'
<1>1. /\ Drive /\ TimedOut[c].pending = None /\ asked' = asked
      /\ client' = [TimedOut EXCEPT ![c] = Issue(c, @, "W", accepted)]
  BY DEF DriveWrite, MayIssue
<1>2. \A d \in Client :
        \/ client'[d] = TimedOut[d]
        \/ /\ client'[d].nextOp = client[d].nextOp + 1 /\ client'[d].safe = 0
           /\ client'[d].pending # None =>
                client'[d].pending.client = d /\ client'[d].pending.op = client'[d].nextOp
  BY <1>1, IssuedFresh
<1> QED
  BY <1>1, <1>2, DriveFresh

LEMMA DriveReadFresh ==
    ASSUME FreshInv, ClientInv', NEW c \in Client, DriveRead(c)
    PROVE  FreshInv'
<1> DEFINE new == [client |-> c, op |-> TimedOut[c].nextOp + 1, min |-> Len(log)]
<1>1. /\ Drive /\ TimedOut[c].pending = None
      /\ client' = [TimedOut EXCEPT ![c] = Issue(c, @, "R", TRUE)]
      /\ asked' = asked \cup {new}
  BY DEF DriveRead, MayIssue
<1>2. \A d \in Client :
        /\ \/ client'[d] = TimedOut[d]
           \/ /\ client'[d].nextOp = client[d].nextOp + 1 /\ client'[d].safe = 0
              /\ client'[d].pending # None =>
                   client'[d].pending.client = d /\ client'[d].pending.op = client'[d].nextOp
        /\ d = c => client'[d].nextOp = client[d].nextOp + 1 /\ client'[d].safe = 0
  BY <1>1, IssuedFresh
<1>3. TimedOut[c].nextOp = client[c].nextOp
  BY TimedOutClient DEF FreshInv, ClientInv
<1>4. /\ new.client = c /\ new.op = client[c].nextOp + 1 /\ new.min = Len(log)
  BY <1>3
<1>5. \A r \in asked' \ asked : r = new
  BY <1>1
<1> HIDE DEF new
<1>6. \A r \in asked' \ asked :
        /\ r.op = client[r.client].nextOp + 1 /\ client'[r.client].nextOp = r.op
        /\ client'[r.client].safe = 0
        /\ r.min = Len(log)
        /\ \A q \in asked' \ asked : q = r
  BY <1>2, <1>4, <1>5
<1> QED
  BY <1>1, <1>2, <1>6, DriveFresh

\* A read takes the index that raft answers to it, and returns the register there
LEMMA StepFresh == FreshInv /\ ClientInv' /\ Step => FreshInv'
<1> SUFFICES ASSUME FreshInv, ClientInv', Step PROVE FreshInv'
  OBVIOUS
<1>1. TypeOK /\ TypeOK' /\ asked' = asked
  BY DEF FreshInv, ClientInv, Step
<1>2. /\ log' \in Seq(Entry) /\ Len(log) =< Len(log') /\ log \in Seq(Entry)
      /\ \A k \in 1..Len(log) : log'[k] = log[k]
      /\ applied' \in [Node -> 1..Len(log')]
  BY <1>1, StepLog DEF TypeOK
<1>3. Len(log) \in Nat /\ Len(log') \in Nat
  BY <1>2
<1>4. PICK answers \in [Client -> UNION {Answers(c, Len(log')) : c \in Client}] :
         /\ \A c \in Client : answers[c] \in Answers(c, Len(log'))
         /\ Serve(log', applied', answers)
  BY DEF Step
<1> DEFINE fresh == NewlyApplied(log', applied') \ {Blank}
           told == [c \in Client |-> OnReadIndexReady(client[c], answers[c])]
           written == {c \in Client : OnWriteCommitted(client[c], fresh)}
           read == {c \in Client : PollRead(told[c], applied'[Prefer[c]])}
           value(c) == RegisterAt(log', applied'[Prefer[c]], told[c].safe)
<1>5. /\ client' = [c \in Client |-> IF c \in written \cup read THEN Free(told[c])
                                     ELSE told[c]]
      /\ history' = history
            \cup {Ended(client[c], TRUE, 0, tick') : c \in written}
            \cup {Ended(client[c], TRUE, value(c), tick') : c \in read}
  BY <1>4 DEF Serve
<1>6. ASSUME NEW c \in Client
      PROVE  /\ told[c] \in ClientState /\ client[c] \in ClientState
             /\ told[c].safe \in 0..Len(log')
             /\ told[c].pending = client[c].pending /\ told[c].nextOp = client[c].nextOp
             /\ \A r \in asked : told[c].safe # 0 /\ r.client = c
                                   /\ r.op = client[c].pending.op => r.min =< told[c].safe
  <2>1. client[c] \in ClientState /\ client[c].safe \in 0..Len(log)
    BY <1>1 DEF TypeOK
  <2>2. CASE answers[c] # None /\ Waits(client[c], "R") /\ answers[c][1] = client[c].pending.op
    <3>1. told[c] = [client[c] EXCEPT !.safe = answers[c][2]]
      BY <2>2 DEF OnReadIndexReady
    <3>2. PICK r \in asked : r.client = c /\ \E k \in r.min..Len(log') : answers[c] = <<r.op, k>>
      BY <1>4, <2>2 DEF Answers
    <3>3. PICK k \in r.min..Len(log') : answers[c] = <<r.op, k>>
      BY <3>2
    <3>4. r.min \in Nat /\ r.op = client[c].pending.op
      BY <1>1, <2>2, <3>3 DEF TypeOK, ReadRequest
    <3>5. k \in 0..Len(log') /\ r.min =< k /\ answers[c][2] = k
      BY <1>3, <3>3, <3>4
    <3>6. told[c].safe = k /\ told[c].pending = client[c].pending
          /\ told[c].nextOp = client[c].nextOp /\ told[c] \in ClientState
      BY <2>1, <3>1, <3>5 DEF ClientState
    <3>7. \A q \in asked : q.client = c /\ q.op = client[c].pending.op => q = r
      BY <3>2, <3>4 DEF FreshInv, Numbered
    <3> HIDE DEF told
    <3> QED
      BY <2>1, <3>5, <3>6, <3>7
  <2>3. CASE ~(answers[c] # None /\ Waits(client[c], "R")
                 /\ answers[c][1] = client[c].pending.op)
    <3>1. told[c] = client[c]
      BY <2>3 DEF OnReadIndexReady
    <3>2. client[c].safe \in 0..Len(log')
      BY <1>2, <1>3, <2>1
    <3> HIDE DEF told
    <3> QED
      BY <2>1, <3>1, <3>2 DEF FreshInv, SafeEnough
  <2> QED
    BY <2>2, <2>3
<1>7. ASSUME NEW c \in Client
      PROVE  /\ client'[c].nextOp = client[c].nextOp
             /\ client'[c].pending \in {None, client[c].pending}
             /\ client'[c].safe # 0 =>
                  client'[c].safe = told[c].safe /\ client'[c].pending = client[c].pending
  <2>1. client'[c] \in {Free(told[c]), told[c]}
    <3> HIDE DEF told, written, read
    <3> QED
      BY <1>5
  <2>2. told[c] \in ClientState
    BY <1>6
  <2>3. /\ Free(told[c]).pending = None /\ Free(told[c]).safe = 0
        /\ Free(told[c]).nextOp = told[c].nextOp
    <3> HIDE DEF told
    <3> QED
      BY <2>2 DEF Free, ClientState
  <2> HIDE DEF told
  <2> QED
    BY <1>6, <2>1, <2>3
<1>8. ASSUME NEW c \in written
      PROVE  /\ client[c].pending # None /\ c \in Client /\ client[c].pending.kind = "W"
             /\ Ended(client[c], TRUE, 0, tick').client = c
             /\ Ended(client[c], TRUE, 0, tick').op = client[c].pending.op
             /\ Ended(client[c], TRUE, 0, tick').kind = "W"
  <2>1. c \in Client /\ client[c].pending # None /\ client[c].pending.kind = "W"
    BY DEF OnWriteCommitted, Waits
  <2>2. client[c] \in ClientState /\ client[c].pending.client = c
    BY <1>6, <2>1 DEF FreshInv, Numbered
  <2>3. /\ Ended(client[c], TRUE, 0, tick').client = client[c].pending.client
        /\ Ended(client[c], TRUE, 0, tick').op = client[c].pending.op
        /\ Ended(client[c], TRUE, 0, tick').kind = client[c].pending.kind
    <3>1. client[c].pending \in Op
      BY <2>1, <2>2 DEF ClientState
    <3> QED
      BY <3>1 DEF Ended, Op
  <2> QED
    BY <2>1, <2>2, <2>3
<1>9. ASSUME NEW c \in read
      PROVE  /\ client[c].pending # None /\ c \in Client
             /\ told[c].safe # 0 /\ applied'[Prefer[c]] >= told[c].safe
             /\ applied'[Prefer[c]] \in Nat
             /\ Ended(client[c], TRUE, value(c), tick').client = c
             /\ Ended(client[c], TRUE, value(c), tick').op = client[c].pending.op
             /\ Ended(client[c], TRUE, value(c), tick').out = value(c)
  <2>1. /\ c \in Client /\ told[c].pending # None /\ told[c].safe # 0
        /\ applied'[Prefer[c]] >= told[c].safe
    BY DEF PollRead, Waits
  <2>2. applied'[Prefer[c]] \in Nat
    <3>1. Prefer[c] \in Node
      BY <2>1, ClientAssumption
    <3> QED
      BY <3>1, <1>2
  <2>3. client[c].pending # None /\ client[c] \in ClientState
    <3> HIDE DEF told, read
    <3> QED
      BY <1>6, <2>1
  <2>4. client[c].pending.client = c
    BY <2>1, <2>3 DEF FreshInv, Numbered
  <2> HIDE DEF value, told, read
  <2>5. /\ Ended(client[c], TRUE, value(c), tick').client = client[c].pending.client
        /\ Ended(client[c], TRUE, value(c), tick').op = client[c].pending.op
        /\ Ended(client[c], TRUE, value(c), tick').out = value(c)
    <3>1. client[c].pending \in Op
      BY <2>3 DEF ClientState
    <3> QED
      BY <3>1 DEF Ended, Op
  <2> QED
    BY <2>1, <2>2, <2>3, <2>4, <2>5
<1> HIDE DEF fresh, told, written, read, value
<1>10. KeepsNumbers
  <2>1. \A c \in Client :
          /\ client'[c].nextOp >= client[c].nextOp
          /\ client'[c].pending # None =>
                client'[c].pending.client = c /\ client'[c].pending.op = client'[c].nextOp
    <3> SUFFICES ASSUME NEW c \in Client
                 PROVE  /\ client'[c].nextOp >= client[c].nextOp
                        /\ client'[c].pending # None =>
                              client'[c].pending.client = c
                                /\ client'[c].pending.op = client'[c].nextOp
      OBVIOUS
    <3>1. client[c].nextOp \in Nat
      BY <1>6 DEF ClientState
    <3> QED
      BY <1>7, <3>1 DEF FreshInv, Numbered
  <2>2. ASSUME NEW op \in history' \ history
        PROVE  \E c \in Client : /\ client[c].pending # None
                                 /\ op.client = c /\ op.op = client[c].pending.op
    <3>1. \/ \E c \in written : op = Ended(client[c], TRUE, 0, tick')
          \/ \E c \in read : op = Ended(client[c], TRUE, value(c), tick')
      BY <1>5
    <3>2. CASE \E c \in written : op = Ended(client[c], TRUE, 0, tick')
      <4>1. PICK c \in written : op = Ended(client[c], TRUE, 0, tick')
        BY <3>2
      <4>2. /\ c \in Client /\ client[c].pending # None
            /\ op.client = c /\ op.op = client[c].pending.op
        BY <1>8, <4>1
      <4> QED
        BY <4>2
    <3>3. CASE \E c \in read : op = Ended(client[c], TRUE, value(c), tick')
      <4>1. PICK c \in read : op = Ended(client[c], TRUE, value(c), tick')
        BY <3>3
      <4>2. /\ c \in Client /\ client[c].pending # None
            /\ op.client = c /\ op.op = client[c].pending.op
        BY <1>9, <4>1
      <4> QED
        BY <4>2
    <3> QED
      BY <3>1, <3>2, <3>3
  <2> QED
    BY <1>1, <2>1, <2>2 DEF KeepsNumbers
<1>11. ASSUME NEW op \in history' \ history, NEW r \in asked, op.kind = "R", op.ok,
              r.client = op.client, r.op = op.op
       PROVE  \E k \in r.min..Len(log') : op.out = RegisterAt(log', k, k)
  <2>1. PICK c \in read : op = Ended(client[c], TRUE, value(c), tick')
    BY <1>5, <1>8, <1>11
  <2>2. c \in Client /\ op.client = c /\ op.op = client[c].pending.op /\ op.out = value(c)
    BY <1>9, <2>1
  <2>3. r.min =< told[c].safe /\ told[c].safe \in 0..Len(log')
    BY <1>6, <1>9, <1>11, <2>2
  <2>4. value(c) = RegisterAt(log', told[c].safe, told[c].safe)
    <3>1. told[c].safe \in Nat
      BY <2>3, <1>3
    <3>2. applied'[Prefer[c]] \in Nat /\ applied'[Prefer[c]] >= told[c].safe
      BY <1>9
    <3>3. RegisterAt(log', applied'[Prefer[c]], told[c].safe)
             = RegisterAt(log', told[c].safe, told[c].safe)
      BY <3>1, <3>2, RegisterAtSafe
    <3> QED
      BY <3>3 DEF value
  <2>5. told[c].safe \in r.min..Len(log')
    BY <2>3, <1>1, <1>3 DEF TypeOK, ReadRequest
  <2> QED
    BY <2>2, <2>4, <2>5
<1>12. Numbered'
  BY <1>1, <1>2, <1>10, NumberedStep
<1>13. ReadsAreFresh'
  BY <1>1, <1>2, <1>10, <1>11, FreshStep
<1>14. SafeEnough'
  BY <1>1, <1>6, <1>7 DEF SafeEnough
<1> QED
  BY <1>12, <1>13, <1>14 DEF FreshInv

\* A read that has an answer returns the register at an index between what was committed
\* when it was asked for and what is committed now, however late raft answers, however
\* often, and however far its node is behind (onReadIndexReady, pollRead, Free).
THEOREM ReadsReturnFreshValues == Spec => []ReadsAreFresh
<1>1. Init => FreshInv
  <2>1. Init => Numbered /\ SafeEnough /\ ReadsAreFresh
    BY DEF Init, Numbered, SafeEnough, ReadsAreFresh
  <2> QED
    BY <2>1, InitInv DEF FreshInv
<1>2. FreshInv /\ [Next]_vars => FreshInv'
  <2> SUFFICES ASSUME FreshInv, [Next]_vars PROVE FreshInv'
    OBVIOUS
  <2>1. ClientInv'
    BY NextInv DEF FreshInv
  <2>2. CASE DriveOnly
    BY <2>1, <2>2, DriveOnlyFresh
  <2>3. CASE \E c \in Client, accepted \in BOOLEAN : DriveWrite(c, accepted)
    BY <2>1, <2>3, DriveWriteFresh
  <2>4. CASE \E c \in Client : DriveRead(c)
    BY <2>1, <2>4, DriveReadFresh
  <2>5. CASE Step
    BY <2>1, <2>5, StepFresh
  <2>6. CASE UNCHANGED vars
    BY <2>1, <2>6 DEF vars, FreshInv, Numbered, SafeEnough, ReadsAreFresh
  <2> QED
    BY <2>2, <2>3, <2>4, <2>5, <2>6 DEF Next
<1>3. FreshInv => ReadsAreFresh
  BY DEF FreshInv
<1> QED
  BY <1>1, <1>2, <1>3, PTL DEF Spec

-----------------------------------------------------------------------------
(***************************************************************************)
(* Whose write is acknowledged.                                            *)
(***************************************************************************)

\* Only one client writes, so that no two count their writes from the same number
OneClientWrites ==
    \A c, d \in Client : <<c, "W">> \in Issues /\ <<d, "W">> \in Issues => c = d

\* An entry that a client has written, or one that writes nothing
OfWriter(e) == e = Blank \/ (e.client \in Client /\ <<e.client, "W">> \in Issues)

\* Operations are their clients', and entries those of clients that write
OwnersHold ==
    /\ \A e \in inflight : OfWriter(e)
    /\ \A k \in 1..Len(log) : OfWriter(log[k])
    /\ \A c \in Client : client[c].pending # None =>
          /\ client[c].pending.client = c
          /\ client[c].pending.kind = "W" => <<c, "W">> \in Issues

AckInv == ClientInv /\ OwnersHold /\ AckIsForOwnWrite

\* What is committed was in flight
LEMMA StepEntries ==
    ASSUME TypeOK, Step
    PROVE  /\ inflight' \subseteq inflight
           /\ \A k \in 1..Len(log') : \/ k \in 1..Len(log) /\ log'[k] = log[k]
                                      \/ log'[k] \in inflight \cup {Blank}
<1>1. PICK batch \in UNION {kSubset(k, inflight \cup {Blank}) : k \in 0..MaxCommits} :
         /\ inflight' = inflight \ batch
         /\ \E order \in SetToSeqs(batch) : log' = log \o order
  BY DEF Step
<1>2. PICK order \in SetToSeqs(batch) : log' = log \o order
  BY <1>1
<1>3. batch \subseteq inflight \cup {Blank} /\ Cardinality(batch) \in Nat
  BY BoundAssumption DEF kSubset
<1>4. order \in [1..Cardinality(batch) -> batch]
  BY DEF SetToSeqs
<1>5. order \in Seq(batch) /\ log \in Seq(Entry)
  BY <1>3, <1>4 DEF TypeOK
<1>6. \A k \in 1..Len(log') : \/ k \in 1..Len(log) /\ log'[k] = log[k]
                              \/ log'[k] \in batch
  <2>1. Len(log') = Len(log) + Len(order) /\ Len(log) \in Nat /\ Len(order) \in Nat
    BY <1>2, <1>5
  <2>2. ASSUME NEW k \in 1..Len(log')
        PROVE  \/ k \in 1..Len(log) /\ log'[k] = log[k]
               \/ log'[k] \in batch
    <3>1. CASE k =< Len(log)
      BY <1>2, <1>5, <2>1, <3>1
    <3>2. CASE ~(k =< Len(log))
      <4>1. k - Len(log) \in 1..Len(order) /\ log'[k] = order[k - Len(log)]
        BY <1>2, <1>5, <2>1, <3>2
      <4>2. order[k - Len(log)] \in batch
        BY <1>5, <4>1
      <4> QED
        BY <4>1, <4>2
    <3> QED
      BY <3>1, <3>2
  <2> QED
    BY <2>2
<1> QED
  BY <1>1, <1>3, <1>6

\* Time-outs and new operations
LEMMA DriveOwners ==
    ASSUME AckInv, Drive,
           \A e \in inflight' \ inflight : OfWriter(e),
           \A c \in Client : client'[c].pending # None =>
              \/ client'[c].pending = client[c].pending
              \/ /\ client'[c].pending.client = c
                 /\ client'[c].pending.kind = "W" => <<c, "W">> \in Issues
    PROVE  OwnersHold' /\ AckIsForOwnWrite'
<1>1. log' = log /\ history' = history \cup {Ended(client[c], FALSE, 0, tick) : c \in Late}
  BY DEF Drive
<1>2. \A c \in Late : Ended(client[c], FALSE, 0, tick).ok = FALSE
  <2> SUFFICES ASSUME NEW c \in Late
               PROVE  Ended(client[c], FALSE, 0, tick).ok = FALSE
    OBVIOUS
  <2>1. client[c].pending \in Op
    BY DEF AckInv, ClientInv, TypeOK, ClientState, Late, Expires
  <2> QED
    BY <2>1 DEF Ended, Op
<1>3. AckIsForOwnWrite'
  BY <1>1, <1>2 DEF AckInv, AckIsForOwnWrite
<1>4. OwnersHold'
  BY <1>1 DEF AckInv, OwnersHold, OfWriter
<1> QED
  BY <1>3, <1>4

\* A client that has timed out, or has not
LEMMA TimedOutKeeps ==
    ASSUME NEW c \in Client, client[c] \in ClientState
    PROVE  TimedOut[c].pending \in {None, client[c].pending}
<1>1. Free(client[c]).pending = None
  BY DEF Free, ClientState
<1> QED
  BY <1>1 DEF TimedOut

\* An operation that is issued is the client's
LEMMA IssuedOwners ==
    ASSUME ClientInv, NEW c \in Client, NEW kind \in {"W", "R"}, NEW accepted \in BOOLEAN,
           <<c, kind>> \in Issues, TimedOut[c].pending = None,
           client' = [TimedOut EXCEPT ![c] = Issue(c, @, kind, accepted)],
           NEW d \in Client, client'[d].pending # None
    PROVE  \/ client'[d].pending = client[d].pending
           \/ /\ client'[d].pending.client = d
              /\ client'[d].pending.kind = "W" => <<d, "W">> \in Issues
<1>1. client[d] \in ClientState /\ client[c] \in ClientState /\ tick \in Nat
  BY DEF ClientInv, TypeOK
<1>2. DOMAIN TimedOut = Client
  BY DEF TimedOut
<1>3. CASE d # c
  <2>1. client'[d] = TimedOut[d]
    BY <1>2, <1>3
  <2> QED
    BY <1>1, <2>1, TimedOutKeeps
<1>4. CASE d = c
  <2>1. client'[c] = Issue(c, TimedOut[c], kind, accepted)
    BY <1>2
  <2>2. GoodClient(TimedOut[c], Len(log)) /\ Len(log) \in Nat
    BY TimedOutIsGood DEF ClientInv, TypeOK
  <2>3. client'[c].pending \in {None, NewOp(c, TimedOut[c], kind)}
    BY <1>1, <2>1, <2>2, IssueIsGood
  <2>4. NewOp(c, TimedOut[c], kind).client = c /\ NewOp(c, TimedOut[c], kind).kind = kind
    BY DEF NewOp
  <2> QED
    BY <1>4, <2>3, <2>4
<1> QED
  BY <1>3, <1>4

LEMMA DriveOnlyOwners == AckInv /\ DriveOnly => OwnersHold' /\ AckIsForOwnWrite'
<1> SUFFICES ASSUME AckInv, DriveOnly PROVE OwnersHold' /\ AckIsForOwnWrite'
  OBVIOUS
<1>1. Drive /\ client' = TimedOut /\ inflight' = inflight
  BY DEF DriveOnly
<1>2. \A c \in Client : client[c] \in ClientState
  BY DEF AckInv, ClientInv, TypeOK
<1>3. \A c \in Client : client'[c].pending # None => client'[c].pending = client[c].pending
  BY <1>1, <1>2, TimedOutKeeps
<1> QED
  BY <1>1, <1>3, DriveOwners

LEMMA DriveWriteOwners ==
    ASSUME AckInv, NEW c \in Client, NEW accepted \in BOOLEAN, DriveWrite(c, accepted)
    PROVE  OwnersHold' /\ AckIsForOwnWrite'
<1> DEFINE new == NewOp(c, TimedOut[c], "W")
<1>1. /\ Drive /\ TimedOut[c].pending = None /\ <<c, "W">> \in Issues
      /\ client' = [TimedOut EXCEPT ![c] = Issue(c, @, "W", accepted)]
      /\ inflight' = inflight \cup (IF accepted THEN Proposals(new) ELSE {})
  BY DEF DriveWrite, MayIssue
<1>2. \A e \in Proposals(new) : e.client = c
  BY DEF Proposals, NewOp
<1>3. \A e \in inflight' \ inflight : e \in Proposals(new)
  <2> HIDE DEF new
  <2> QED
    BY <1>1
<1>4. \A e \in inflight' \ inflight : OfWriter(e)
  BY <1>1, <1>2, <1>3 DEF OfWriter
<1>5. \A d \in Client : client'[d].pending # None =>
         \/ client'[d].pending = client[d].pending
         \/ /\ client'[d].pending.client = d
            /\ client'[d].pending.kind = "W" => <<d, "W">> \in Issues
  BY <1>1, IssuedOwners DEF AckInv
<1> QED
  BY <1>1, <1>4, <1>5, DriveOwners

LEMMA DriveReadOwners ==
    ASSUME AckInv, NEW c \in Client, DriveRead(c)
    PROVE  OwnersHold' /\ AckIsForOwnWrite'
<1>1. /\ Drive /\ TimedOut[c].pending = None /\ <<c, "R">> \in Issues /\ inflight' = inflight
      /\ client' = [TimedOut EXCEPT ![c] = Issue(c, @, "R", TRUE)]
  BY DEF DriveRead, MayIssue
<1>2. \A d \in Client : client'[d].pending # None =>
         \/ client'[d].pending = client[d].pending
         \/ /\ client'[d].pending.client = d
            /\ client'[d].pending.kind = "W" => <<d, "W">> \in Issues
  BY <1>1, IssuedOwners DEF AckInv
<1> QED
  BY <1>1, <1>2, DriveOwners

\* What is acknowledged has just been applied, and is of the only client that writes
LEMMA StepOwners ==
    ASSUME OneClientWrites, AckInv, Step
    PROVE  OwnersHold' /\ AckIsForOwnWrite'
<1>1. TypeOK /\ OwnersHold /\ AckIsForOwnWrite
  BY DEF AckInv, ClientInv
<1>2. /\ log' \in Seq(Entry) /\ Len(log) =< Len(log') /\ log \in Seq(Entry)
      /\ \A k \in 1..Len(log) : log'[k] = log[k]
      /\ applied' \in [Node -> 1..Len(log')] /\ applied \in [Node -> 1..Len(log)]
  BY <1>1, StepLog DEF TypeOK
<1>3. /\ inflight' \subseteq inflight
      /\ \A k \in 1..Len(log') : OfWriter(log'[k])
  <2>1. OfWriter(Blank)
    BY DEF OfWriter
  <2> QED
    BY <1>1, <2>1, StepEntries DEF OwnersHold
<1>4. \A c \in Client : client[c] \in ClientState
  BY <1>1 DEF TypeOK
<1>5. PICK answers \in [Client -> UNION {Answers(c, Len(log')) : c \in Client}] :
         Serve(log', applied', answers)
  BY DEF Step
<1> DEFINE fresh == NewlyApplied(log', applied') \ {Blank}
           told == [c \in Client |-> OnReadIndexReady(client[c], answers[c])]
           written == {c \in Client : OnWriteCommitted(client[c], fresh)}
           read == {c \in Client : PollRead(told[c], applied'[Prefer[c]])}
           value(c) == RegisterAt(log', applied'[Prefer[c]], told[c].safe)
<1>6. /\ client' = [c \in Client |-> IF c \in written \cup read THEN Free(told[c])
                                     ELSE told[c]]
      /\ history' = history
            \cup {Ended(client[c], TRUE, 0, tick') : c \in written}
            \cup {Ended(client[c], TRUE, value(c), tick') : c \in read}
  BY <1>5 DEF Serve
<1>7. ASSUME NEW c \in Client
      PROVE  told[c].pending = client[c].pending /\ told[c] \in {client[c], [client[c] EXCEPT !.safe = answers[c][2]]}
  BY <1>4 DEF OnReadIndexReady, ClientState
<1>8. ASSUME NEW c \in Client
      PROVE  client'[c].pending \in {None, client[c].pending}
  <2>1. Free(told[c]).pending = None
    <3>1. Free(client[c]).pending = None
      BY <1>4 DEF Free, ClientState
    <3>2. Free([client[c] EXCEPT !.safe = answers[c][2]]).pending = None
      BY <1>4 DEF Free, ClientState
    <3> HIDE DEF told
    <3> QED
      BY <1>7, <3>1, <3>2
  <2>2. client'[c] \in {Free(told[c]), told[c]}
    <3> HIDE DEF told, written, read
    <3> QED
      BY <1>6
  <2> HIDE DEF told
  <2> QED
    BY <1>7, <2>1, <2>2
<1>9. ASSUME NEW c \in written
      PROVE  \E k \in 1..Len(log') : log'[k].client = c /\ log'[k].op = client[c].pending.op
  <2>1. c \in Client /\ client[c].pending # None /\ client[c].pending.kind = "W"
    BY DEF OnWriteCommitted, Waits
  <2>2. PICK e \in NewlyApplied(log', applied') : e # Blank /\ e.op = client[c].pending.op
    BY DEF OnWriteCommitted
  <2>3. PICK n \in Node : \E k \in applied[n] + 1 .. applied'[n] : e = log'[k]
    BY DEF NewlyApplied
  <2>4. PICK k \in applied[n] + 1 .. applied'[n] : e = log'[k]
    BY <2>3
  <2>5. k \in 1..Len(log')
    <3>1. applied[n] \in Nat /\ applied'[n] \in Nat /\ applied'[n] =< Len(log')
      BY <1>2
    <3> QED
      BY <1>2, <3>1
  <2>6. e.client \in Client /\ <<e.client, "W">> \in Issues
    BY <1>3, <2>2, <2>4, <2>5 DEF OfWriter
  <2>7. <<c, "W">> \in Issues
    BY <1>1, <2>1 DEF OwnersHold
  <2>8. e.client = c
    BY <2>1, <2>6, <2>7 DEF OneClientWrites
  <2> QED
    BY <2>2, <2>4, <2>5, <2>8
<1>10. ASSUME NEW op \in history', op.kind = "W", op.ok
       PROVE  \E k \in 1..Len(log') : log'[k].client = op.client /\ log'[k].op = op.op
  <2>1. CASE op \in history
    <3>1. PICK k \in 1..Len(log) : log[k].client = op.client /\ log[k].op = op.op
      BY <1>1, <1>10, <2>1 DEF AckIsForOwnWrite
    <3> QED
      BY <1>2, <3>1
  <2>2. ASSUME NEW c \in written, op = Ended(client[c], TRUE, 0, tick')
        PROVE  \E k \in 1..Len(log') : log'[k].client = op.client /\ log'[k].op = op.op
    <3>1. c \in Client /\ client[c].pending # None
      BY DEF OnWriteCommitted, Waits
    <3>2. client[c].pending \in Op /\ client[c].pending.client = c
      BY <1>1, <1>4, <3>1 DEF OwnersHold, ClientState
    <3>3. op.client = c /\ op.op = client[c].pending.op
      BY <2>2, <3>2 DEF Ended, Op
    <3> QED
      BY <1>9, <3>3
  <2>3. ASSUME NEW c \in read, op = Ended(client[c], TRUE, value(c), tick')
        PROVE  FALSE
    <3>1. c \in Client /\ told[c].pending # None /\ told[c].pending.kind = "R"
      BY DEF PollRead, Waits
    <3>2. client[c].pending # None /\ client[c].pending.kind = "R" /\ c \in Client
      <4> HIDE DEF told, read
      <4> QED
        BY <1>7, <3>1
    <3>3. client[c].pending \in Op
      BY <1>4, <3>2 DEF ClientState
    <3>4. op.kind = client[c].pending.kind
      <4> HIDE DEF value
      <4> QED
        BY <2>3, <3>3 DEF Ended, Op
    <3> QED
      BY <1>10, <3>2, <3>4
  <2> HIDE DEF written, read, value
  <2> QED
    BY <1>6, <2>1, <2>2, <2>3
<1>11. OwnersHold'
  <2>1. \A c \in Client : client'[c].pending # None => client'[c].pending = client[c].pending
    BY <1>8
  <2> QED
    BY <1>1, <1>3, <2>1 DEF OwnersHold, OfWriter
<1> QED
  BY <1>10, <1>11 DEF AckIsForOwnWrite

\* With one client that writes, a write that is reported as committed is in the log itself,
\* however late, repeated or given up: that clients count from the same number is all that
\* can attach an answer to the wrong write (EncodeWrite, onWriteCommitted).
THEOREM AcksAreForOwnWrites ==
    ASSUME OneClientWrites
    PROVE  Spec => []AckIsForOwnWrite
<1>1. Init => AckInv
  <2>1. Init => OwnersHold /\ AckIsForOwnWrite
    BY DEF Init, OwnersHold, AckIsForOwnWrite, OfWriter
  <2> QED
    BY <2>1, InitInv DEF AckInv
<1>2. AckInv /\ [Next]_vars => AckInv'
  <2> SUFFICES ASSUME AckInv, [Next]_vars PROVE OwnersHold' /\ AckIsForOwnWrite'
    BY NextInv DEF AckInv
  <2>1. CASE DriveOnly
    BY <2>1, DriveOnlyOwners
  <2>2. CASE \E c \in Client, accepted \in BOOLEAN : DriveWrite(c, accepted)
    BY <2>2, DriveWriteOwners
  <2>3. CASE \E c \in Client : DriveRead(c)
    BY <2>3, DriveReadOwners
  <2>4. CASE Step
    BY <2>4, StepOwners
  <2>5. CASE UNCHANGED vars
    BY <2>5 DEF vars, AckInv, OwnersHold, OfWriter, AckIsForOwnWrite
  <2> QED
    BY <2>1, <2>2, <2>3, <2>4, <2>5 DEF Next
<1>3. AckInv => AckIsForOwnWrite
  BY DEF AckInv
<1> QED
  BY <1>1, <1>2, <1>3, PTL DEF Spec

=============================================================================
