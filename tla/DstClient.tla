------------------------------ MODULE DstClient ------------------------------
(***************************************************************************)
(* The clients of the simulation harness (harness/dst/client.go) and the   *)
(* part of the cluster driver that serves them (Cluster.Step in            *)
(* cluster.go): writes to a register that are proposed, committed, applied *)
(* and acknowledged, reads through ReadIndex, and time-outs; and what      *)
(* history.go makes of the operations that have ended.                     *)
(*                                                                         *)
(* Raft appears here by what it promises.  A proposal is committed at any  *)
(* later time or never, and twice when the network repeats it on its way   *)
(* to the leader; each node applies the committed entries in order; a      *)
(* ReadIndex resolves, if it does, to an index that is committed by then   *)
(* and not below what was committed when it was asked.                     *)
(***************************************************************************)
EXTENDS Integers, FiniteSets, Sequences, SequencesExt, FiniteSetsExt

CONSTANTS
    Client, Node,
    None,        \* no operation, no answer
    Prefer,      \* Prefer[c]: the node client c talks to
    Issues,      \* the operations <<client, kind>> an instance issues  (a bound)
    OpTimeout,   \* Scenario.opTimeoutTicks
    Duplicates,  \* whether the network repeats proposals
    MaxOps,      \* how many operations a client issues                 (a bound)
    MaxCommits,  \* how many entries are committed in a tick            (a bound)
    MaxLog,      \* how many entries the log may have                   (a bound)
    MaxTick      \* how many ticks are simulated: the flag -ticks

VARIABLES
    tick,      \* Cluster.tick
    phase,     \* the next half of the loop of main: "drive" or "step"
    inflight,  \* the proposals that raft has accepted and not committed
    asked,     \* the ReadIndex requests, with the commit index when they were made;
               \* never emptied, since a request may be answered late or twice
    log,       \* what raft has committed, in order
    applied,   \* applied[n]: Node.appliedIndex
    client,    \* client[c]: the fields of Client
    history    \* Client.History of all clients

vars == <<tick, phase, inflight, asked, log, applied, client, history>>

-----------------------------------------------------------------------------
(***************************************************************************)
(* Types.                                                                  *)
(***************************************************************************)
Op == [client : Client, op : Nat, kind : {"W", "R"}, val : Nat, out : Nat, ok : BOOLEAN,
       call : Nat, ret : Nat]

\* An entry.  Its payload holds op and val only (EncodeWrite); client and copy tell apart
\* what the code does not.
Entry == [client : Client \cup {None}, op : Nat, val : Nat, copy : {1, 2}]

ReadRequest == [client : Client, op : Nat, min : Nat]

ClientState == [nextOp : Nat, nextVal : Nat, pending : Op \cup {None}, safe : Nat]

ASSUME ClientAssumption ==
    /\ IsFiniteSet(Client)
    /\ Prefer \in [Client -> Node]
    /\ Issues \subseteq Client \X {"W", "R"}
    /\ None \notin Client \cup Op \cup (Nat \X Nat)
ASSUME BoundAssumption ==
    /\ OpTimeout \in Nat \ {0} /\ Duplicates \in BOOLEAN
    /\ MaxOps \in Nat /\ MaxCommits \in Nat /\ MaxLog \in Nat \ {0} /\ MaxTick \in Nat

\* An entry that writes nothing: those of the bootstrap, and the first one of a leader
Blank == [client |-> None, op |-> 0, val |-> 0, copy |-> 1]

Init ==
    /\ tick = 0
    /\ phase = "drive"
    /\ inflight = {}
    /\ asked = {}
    /\ log = <<Blank>>
    /\ applied = [n \in Node |-> 1]
    /\ client = [c \in Client |-> [nextOp |-> 0, nextVal |-> 0, pending |-> None, safe |-> 0]]
    /\ history = {}

-----------------------------------------------------------------------------
(***************************************************************************)
(* The methods of a client take its record and return it changed; an       *)
(* operation that ends goes to the history.                                *)
(***************************************************************************)
Waits(cl, kind) == cl.pending # None /\ cl.pending.kind = kind

Ended(cl, ok, out, at) == [cl.pending EXCEPT !.ok = ok, !.out = out, !.ret = at]

\* Faulty: the safe index of the operation that ends is kept
MutFree(cl) == [cl EXCEPT !.pending = None]

Free(cl) == [cl EXCEPT !.pending = None, !.safe = 0]

\* Faulty: a read that has been promised an index is waited for
MutExpires(cl) ==
    cl.pending # None /\ cl.safe = 0 /\ tick - cl.pending.call >= OpTimeout

\* Client.Tick: an operation that has taken too long ends unanswered
Expires(cl) == cl.pending # None /\ tick - cl.pending.call >= OpTimeout

\* MaybeIssue.  The counters move whether or not raft accepts the proposal; each client
\* has counters of its own.
NewOp(c, cl, kind) ==
    [client |-> c, op |-> cl.nextOp + 1, kind |-> kind,
     val |-> IF kind = "W" THEN cl.nextVal + 1 ELSE 0, out |-> 0, ok |-> FALSE,
     call |-> tick, ret |-> 0]

Issue(c, cl, kind, accepted) ==
    [cl EXCEPT !.nextOp = @ + 1,
               !.nextVal = IF kind = "W" THEN @ + 1 ELSE @,
               !.pending = IF accepted THEN NewOp(c, cl, kind) ELSE None,
               !.safe = IF kind = "R" THEN 0 ELSE @]

\* EncodeWrite: the copies of the proposal that a leader may receive
Proposals(op) ==
    {[client |-> op.client, op |-> op.op, val |-> op.val, copy |-> k] :
        k \in IF Duplicates THEN {1, 2} ELSE {1}}

\* Faulty: a write is taken for committed as soon as any write is
MutOnWriteCommitted(cl, entries) == Waits(cl, "W") /\ entries # {}

\* onWriteCommitted: an applied entry carries the number of the pending write
OnWriteCommitted(cl, entries) ==
    Waits(cl, "W") /\ \E e \in entries : e.op = cl.pending.op

\* Faulty: the answer to any earlier read of the client is taken
MutOnReadIndexReady(cl, answer) ==
    IF answer # None /\ Waits(cl, "R") THEN [cl EXCEPT !.safe = answer[2]] ELSE cl

\* onReadIndexReady: an answer <<op, index>> to a read of this client
OnReadIndexReady(cl, answer) ==
    IF answer # None /\ Waits(cl, "R") /\ answer[1] = cl.pending.op
    THEN [cl EXCEPT !.safe = answer[2]] ELSE cl

\* Faulty: a read is served as soon as it has a safe index
MutPollRead(cl, at) == Waits(cl, "R") /\ cl.safe # 0

\* pollRead: the node has applied the safe index
PollRead(cl, at) == Waits(cl, "R") /\ cl.safe # 0 /\ at >= cl.safe

\* Node.registerAt, searched downwards from the safe index: the last write until there
RegisterAt(entries, at, safe) ==
    LET writes == {k \in 1..Min({at, safe}) : entries[k] # Blank}
    IN  IF writes = {} THEN 0 ELSE entries[Max(writes)].val

-----------------------------------------------------------------------------
(***************************************************************************)
(* Scenario.Drive: time-outs, then at most one client issues an operation. *)
(***************************************************************************)
Late == {c \in Client : Expires(client[c])}

TimedOut == [c \in Client |-> IF c \in Late THEN Free(client[c]) ELSE client[c]]

Drive ==
    /\ phase = "drive"
    /\ tick < MaxTick
    /\ phase' = "step"
    /\ history' = history \cup {Ended(client[c], FALSE, 0, tick) : c \in Late}
    /\ UNCHANGED <<tick, log, applied>>

MayIssue(c, kind) ==
    /\ <<c, kind>> \in Issues
    /\ TimedOut[c].pending = None
    /\ TimedOut[c].nextOp < MaxOps

DriveOnly ==
    /\ Drive
    /\ client' = TimedOut
    /\ UNCHANGED <<inflight, asked>>

DriveWrite(c, accepted) ==
    /\ Drive
    /\ MayIssue(c, "W")
    /\ client' = [TimedOut EXCEPT ![c] = Issue(c, @, "W", accepted)]
    /\ inflight' = inflight \cup
                     IF accepted THEN Proposals(NewOp(c, TimedOut[c], "W")) ELSE {}
    /\ UNCHANGED asked

DriveRead(c) ==
    /\ Drive
    /\ MayIssue(c, "R")
    /\ client' = [TimedOut EXCEPT ![c] = Issue(c, @, "R", TRUE)]
    /\ asked' = asked \cup {[client |-> c, op |-> TimedOut[c].nextOp + 1, min |-> Len(log)]}
    /\ UNCHANGED inflight

-----------------------------------------------------------------------------
(***************************************************************************)
(* Cluster.Step: entries are committed, every node applies some of them,   *)
(* reads resolve, and then the reads are polled.                           *)
(***************************************************************************)
NewlyApplied(entries, upTo) ==
    {entries[k] : k \in UNION {applied[n] + 1 .. upTo[n] : n \in Node}}

\* What raft may answer to the reads of a client: nothing, or <<op, index>>
Answers(c, commit) ==
    {None} \cup UNION {{<<r.op, k>> : k \in r.min..commit} :
                         r \in {x \in asked : x.client = c}}

Serve(entries, upTo, answers) ==
    LET fresh == NewlyApplied(entries, upTo) \ {Blank}
        told == [c \in Client |-> OnReadIndexReady(client[c], answers[c])]
        written == {c \in Client : OnWriteCommitted(client[c], fresh)}
        read == {c \in Client : PollRead(told[c], upTo[Prefer[c]])}
        value(c) == RegisterAt(entries, upTo[Prefer[c]], told[c].safe)
    IN  /\ client' = [c \in Client |->
                        IF c \in written \cup read THEN Free(told[c]) ELSE told[c]]
        /\ history' = history
             \cup {Ended(client[c], TRUE, 0, tick') : c \in written}
             \cup {Ended(client[c], TRUE, value(c), tick') : c \in read}

\* Copies are alike: the one that is committed first is called the first
InTurn(batch) ==
    \A e \in batch : e.copy = 2 => [e EXCEPT !.copy = 1] \notin inflight \ batch

\* The entries of a Ready follow those that the node has applied
AppliedUpTo(n, commit) == applied[n]..commit

Step ==
    /\ phase = "step"
    /\ phase' = "drive"
    /\ tick' = tick + 1
    /\ \E batch \in UNION {kSubset(k, inflight \cup {Blank}) : k \in 0..MaxCommits} :
         /\ Len(log) + Cardinality(batch) <= MaxLog
         /\ InTurn(batch)
         /\ inflight' = inflight \ batch
         /\ \E order \in SetToSeqs(batch) : log' = log \o order
    /\ applied' \in [Node -> 1..Len(log')]
    /\ \A n \in Node : applied'[n] \in AppliedUpTo(n, Len(log'))
    /\ \E answers \in [Client -> UNION {Answers(c, Len(log')) : c \in Client}] :
         /\ \A c \in Client : answers[c] \in Answers(c, Len(log'))
         /\ Serve(log', applied', answers)
    /\ UNCHANGED asked

Next ==
    \/ DriveOnly
    \/ \E c \in Client, accepted \in BOOLEAN : DriveWrite(c, accepted)
    \/ \E c \in Client : DriveRead(c)
    \/ Step

Spec == Init /\ [][Next]_vars

-----------------------------------------------------------------------------
(***************************************************************************)
(* history.go: which operations are given to the checker, and when it      *)
(* calls them linearizable: they have an order that no operation precedes  *)
(* one that ended before it was called, in which every read returns the    *)
(* last write before it.                                                   *)
(***************************************************************************)
\* ToOperations leaves out what was not answered
ToOperations == {op \in history : op.ok}

\* registerModel over an order of the operations
Explains(order) ==
    /\ \A j \in 1..Len(order) : \A i \in 1..j - 1 : order[j].ret >= order[i].call
    /\ \A j \in 1..Len(order) :
          order[j].kind = "R" =>
             LET writes == {i \in 1..j - 1 : order[i].kind = "W"}
             IN  order[j].out = IF writes = {} THEN 0 ELSE order[Max(writes)].val

Linearizable(ops) == \E order \in SetToSeqs(ops) : Explains(order)

-----------------------------------------------------------------------------
(***************************************************************************)
(* Correctness.                                                            *)
(***************************************************************************)
\* The types; a safe index lies in the log and belongs to the read that is pending.
TypeOK ==
    /\ tick \in Nat
    /\ phase \in {"drive", "step"}
    /\ inflight \subseteq Entry
    /\ asked \subseteq ReadRequest
    /\ log \in Seq(Entry)
    /\ applied \in [Node -> 1..Len(log)]
    /\ client \in [Client -> ClientState]
    /\ \A c \in Client : /\ client[c].safe \in 0..Len(log)
                         /\ client[c].safe # 0 => Waits(client[c], "R")
    /\ history \subseteq Op

\* What the clients record is linearizable: a read returns the register at a moment
\* between its call and its return (pollRead, onWriteCommitted, ToOperations, Check).
HistoryIsLinearizable == Linearizable(ToOperations)

\* An operation without an answer, ended or pending, may still take effect
Unanswered ==
    {[op EXCEPT !.ret = MaxTick + 1] :
        op \in {x \in history : x.kind = "W" /\ ~x.ok}
                 \cup {client[c].pending : c \in {x \in Client : Waits(client[x], "W")}}}

\* A write whose proposal was repeated takes effect a second time when the copy is committed
Repeated ==
    {[op EXCEPT !.ret = MaxTick + 1, !.ok = FALSE, !.out = 2] :
        op \in {x \in {y \in history : y.kind = "W"} \cup Unanswered :
                  \E k \in 1..Len(log) : log[k].client = x.client /\ log[k].op = x.op
                                            /\ log[k].copy = 2}}

\* A client issues its next operation when it has the answer to the last one
InClientOrder(order) ==
    \A j \in 1..Len(order) : \A i \in 1..j - 1 :
        order[i].client = order[j].client /\ order[i].ok /\ order[j].ok =>
            order[i].op < order[j].op

\* Whatever the clients observed is explained by the writes that were answered, some of
\* those that were not, and the repetitions of either as writes of their own, in an order
\* that keeps the answered operations of each client in turn, also where the whole ticks
\* of the checker would let two of them change places (Tick, pollRead, onWriteCommitted,
\* ToOperations, Send).
ExplainedInClientOrder ==
    \E some \in SUBSET (Unanswered \cup Repeated) :
        \E order \in SetToSeqs(ToOperations \cup some) :
            Explains(order) /\ InClientOrder(order)

\* A write that is reported as committed is one whose own entry is in the log: the number
\* in an entry is "unique per (cluster, op) so we can match a committed entry back to the
\* issuing client" (EncodeWrite, onWriteCommitted).
AckIsForOwnWrite ==
    \A op \in history :
        op.kind = "W" /\ op.ok =>
            \E k \in 1..Len(log) : log[k].client = op.client /\ log[k].op = op.op

\* No operation keeps its client for longer than the time-out, whether raft dropped the
\* request, answers too late, or has answered and the node does not get on (Tick, Drive).
OperationsEnd ==
    \A c \in Client :
        client[c].pending # None => tick - client[c].pending.call <= OpTimeout

\* A read that has an answer returns the register at an index that was not passed when the
\* read was asked for and is committed now: however late raft's answer comes, whether an
\* earlier read of the client has been answered meanwhile, and however far the client's
\* node is behind in applying (ReadIndex, onReadIndexReady, pollRead, Free).
ReadsAreFresh ==
    \A op \in history, r \in asked :
        op.kind = "R" /\ op.ok /\ r.client = op.client /\ r.op = op.op =>
            \E k \in r.min..Len(log) : op.out = RegisterAt(log, k, k)

=============================================================================
