------------------------------ MODULE FlowControl ------------------------------
(***************************************************************************)
(* How a leader of raft keeps one follower supplied with entries: the      *)
(* evolved function maybeSendAppend in its baseline form and in the three  *)
(* accepted forms (out/best, out-rerun-*/best, ARTIFACT_NOTES.md), and the *)
(* handlers of stepLeader that call it.  This is the part of a leadership  *)
(* that Raft leaves out: the window of messages in flight, pauses, probes, *)
(* log compaction and snapshots.                                           *)
(*                                                                         *)
(* One leadership is modelled, in which the log of the follower is a       *)
(* prefix of the leader's, so an entry is its index.  The other voters     *)
(* appear by what they acknowledge: the commit index may advance at any    *)
(* time.                                                                   *)
(***************************************************************************)
EXTENDS Integers, FiniteSets, Sequences, SequencesExt, FiniteSetsExt

CONSTANTS
    Nothing,      \* no message
    MaxEnts,      \* the entries that fit in a message: Config.MaxSizePerMsg
    MaxInflight,  \* Config.MaxInflightMsgs
    Own,          \* the index of the first entry of the leader's term
    Built,        \* the forms of maybeSendAppend an instance runs            (a bound)
    MaxLog,       \* no entry is appended past this index                    (a bound)
    MaxWire,      \* how many messages are under way when the leader is prompted
                  \* to send another                                          (a bound)
    MaxFaults     \* how many messages are lost or delivered again, and how many times
                  \* the follower is reported unreachable                     (a bound)

ASSUME SizeAssumption ==
    /\ Built \subseteq {"baseline", "best", "rerun", "noted"}
    /\ MaxEnts \in Nat \ {0} /\ MaxInflight \in Nat \ {0}
    /\ Own \in Nat \ {0} /\ MaxLog \in Nat /\ MaxWire \in Nat /\ MaxFaults \in Nat
    /\ Nothing \notin [type : {"MsgApp"}, index : Nat, count : Nat, commit : Nat]
                        \cup [type : {"MsgSnap"}, index : Nat]

VARIABLES
    variant,  \* which form of maybeSendAppend the leader was built with
    ld,       \* the leader: first, last and commit of raftLog, and whether the storage
              \* has a snapshot ready
    pr,       \* trk.Progress of the follower
    fw,       \* the follower: last and commit of its raftLog
    wire,     \* the messages that are under way, in both directions
    faults    \* how many of MaxFaults have happened

vars == <<variant, ld, pr, fw, wire, faults>>

-----------------------------------------------------------------------------
(***************************************************************************)
(* Types.                                                                  *)
(***************************************************************************)
Variants == {"baseline", "best", "rerun", "noted"}

Log == [first : Nat \ {0}, last : Nat, commit : Nat, ready : BOOLEAN]

Progress == [state : {"Probe", "Replicate", "Snapshot"}, match : Nat, next : Nat \ {0},
             paused : BOOLEAN, sentCommit : Nat, inflights : Seq(Nat),
             pending : Nat, active : BOOLEAN]

AppMsg == [type : {"MsgApp"}, index : Nat, count : Nat, commit : Nat]
SnapMsg == [type : {"MsgSnap"}, index : Nat]
AckMsg == [type : {"MsgAppResp"}, index : Nat]
RejectMsg == [type : {"Reject"}, index : Nat, hint : Nat]

-----------------------------------------------------------------------------
(***************************************************************************)
(* tracker.Progress and tracker.Inflights.                                 *)
(***************************************************************************)
Full(p) == Len(p.inflights) >= MaxInflight

IsPaused(p) == p.state = "Snapshot" \/ p.paused

ResetState(p, state) ==
    [p EXCEPT !.state = state, !.paused = FALSE, !.pending = 0, !.inflights = <<>>]

BecomeProbe(p) ==
    LET next == IF p.state = "Snapshot" THEN Max({p.match, p.pending}) + 1 ELSE p.match + 1
    IN  [ResetState(p, "Probe") EXCEPT !.next = next, !.sentCommit = Min({@, next - 1})]

BecomeReplicate(p) == [ResetState(p, "Replicate") EXCEPT !.next = p.match + 1]

BecomeSnapshot(p, index) ==
    [ResetState(p, "Snapshot") EXCEPT !.pending = index, !.next = index + 1,
                                      !.sentCommit = index]

\* Inflights.Add panics on a full window; WindowIsKept is about that
SentEntries(p, count) ==
    LET sent == IF count > 0
                THEN [p EXCEPT !.next = @ + count,
                               !.inflights = Append(@, p.next + count - 1)]
                ELSE p
    IN  IF p.state = "Replicate" THEN [sent EXCEPT !.paused = Full(sent)]
        ELSE [p EXCEPT !.paused = @ \/ count > 0]

CanBumpCommit(p, commit) == commit > p.sentCommit /\ p.sentCommit < p.next - 1

MaybeUpdate(p, k) ==
    IF k <= p.match THEN p
    ELSE [p EXCEPT !.match = k, !.next = Max({@, k + 1}), !.paused = FALSE]

\* Frees what was sent up to entry k, from the oldest on
FreeLE(p, k) ==
    LET kept == {x \in DOMAIN p.inflights : p.inflights[x] > k}
    IN  [p EXCEPT !.inflights = IF kept = {} THEN <<>> ELSE SubSeq(@, Min(kept), Len(@))]

RejectionIsCurrent(p, rejected) ==
    IF p.state = "Replicate" THEN rejected > p.match ELSE p.next - 1 = rejected

DecrTo(p, rejected, hint) ==
    LET next == IF p.state = "Replicate" THEN p.match + 1
                ELSE Max({Min({rejected, hint + 1}), p.match + 1})
    IN  [p EXCEPT !.next = next, !.sentCommit = Min({@, next - 1}),
                  !.paused = IF p.state = "Replicate" THEN @ ELSE FALSE]

-----------------------------------------------------------------------------
(***************************************************************************)
(* maybeSendAppend.  A form takes the log l, the progress p, whether an    *)
(* empty message is wanted, and the first index f of the log at the moment *)
(* the entries are fetched: the application may compact the log after the  *)
(* term lookup.  It gives the message sent, if any, and the new progress.  *)
(***************************************************************************)
Sent(m, p) == [msg |-> m, pr |-> p]

SendNothing(p) == Sent(Nothing, p)

\* maybeSendSnapshot
SendSnapshot(l, p) ==
    IF p.active /\ l.ready
    THEN Sent([type |-> "MsgSnap", index |-> l.first - 1], BecomeSnapshot(p, l.first - 1))
    ELSE SendNothing(p)

SendApp(l, p, count) ==
    Sent([type |-> "MsgApp", index |-> p.next - 1, count |-> count, commit |-> l.commit],
         [SentEntries(p, count) EXCEPT !.sentCommit = l.commit])

\* Faulty: a pause is taken for a full window
MutThrottled(p) == p.state = "Replicate" /\ p.paused

Throttled(p) == p.state = "Replicate" /\ Full(p)

\* raftLog.term(next - 1) fails
TermFails(l, p) == p.next < l.first

\* raftLog.entries(next) fails
FetchFails(l, p, f) == ~Throttled(p) /\ p.next <= l.last /\ p.next < f

\* How many entries raftLog.entries(next) returns
Fetched(l, p, f) ==
    IF Throttled(p) \/ p.next > l.last \/ FetchFails(l, p, f) THEN 0
    ELSE Min({MaxEnts, l.last - p.next + 1})

\* Nothing is new for the follower, neither an entry nor the commit index
CaughtUp(l, p) == p.next > l.last /\ ~CanBumpCommit(p, l.commit)

Baseline(l, p, sendIfEmpty, f) ==
    CASE IsPaused(p) -> SendNothing(p)
      [] ~IsPaused(p) /\ TermFails(l, p) -> SendSnapshot(l, p)
      [] OTHER ->
           IF Fetched(l, p, f) = 0 /\ ~sendIfEmpty THEN SendNothing(p)
           ELSE IF FetchFails(l, p, f) THEN SendSnapshot([l EXCEPT !.first = f], p)
           ELSE SendApp(l, p, Fetched(l, p, f))

\* What follows the shortcuts of the evolved forms, which look at a failed fetch first
Evolved(l, p, sendIfEmpty, f) ==
    CASE TermFails(l, p) -> SendSnapshot(l, p)
      [] ~TermFails(l, p) /\ FetchFails(l, p, f) -> SendSnapshot([l EXCEPT !.first = f], p)
      [] OTHER ->
           IF Fetched(l, p, f) = 0 /\ ~sendIfEmpty THEN SendNothing(p)
           ELSE SendApp(l, p, Fetched(l, p, f))

\* out/best: the caller wants no empty message and nothing is new
Best(l, p, sendIfEmpty, f) ==
    IF IsPaused(p) \/ (~sendIfEmpty /\ CaughtUp(l, p)) THEN SendNothing(p)
    ELSE Evolved(l, p, sendIfEmpty, f)

\* out-rerun: or the window is full
Rerun(l, p, sendIfEmpty, f) ==
    IF IsPaused(p) \/ (~sendIfEmpty /\ (Throttled(p) \/ CaughtUp(l, p))) THEN SendNothing(p)
    ELSE Evolved(l, p, sendIfEmpty, f)

\* Faulty: an empty message is never sent to a follower whose window is full
MutNoted(l, p, sendIfEmpty, f) ==
    IF IsPaused(p) \/ Throttled(p) THEN SendNothing(p) ELSE Evolved(l, p, sendIfEmpty, f)

\* ARTIFACT_NOTES.md: the caller wants no empty message and the window is full
Noted(l, p, sendIfEmpty, f) ==
    IF IsPaused(p) \/ (~sendIfEmpty /\ Throttled(p)) THEN SendNothing(p)
    ELSE Evolved(l, p, sendIfEmpty, f)

Form(v, l, p, sendIfEmpty, f) ==
    CASE v = "baseline" -> Baseline(l, p, sendIfEmpty, f)
      [] v = "best"     -> Best(l, p, sendIfEmpty, f)
      [] v = "rerun"    -> Rerun(l, p, sendIfEmpty, f)
      [] v = "noted"    -> Noted(l, p, sendIfEmpty, f)

-----------------------------------------------------------------------------
(***************************************************************************)
(* The calls the leader makes.  Each gives the messages sent and the new   *)
(* log and progress.                                                       *)
(***************************************************************************)
Call(s, sendIfEmpty) ==
    LET out == Form(variant, s.ld, s.pr, sendIfEmpty, s.ld.first)
    IN  [s EXCEPT !.msgs = @ \cup ({out.msg} \ {Nothing}), !.pr = out.pr]

Quiet(l, p) == [ld |-> l, pr |-> p, msgs |-> {}]

SendAppend(l, p) == Call(Quiet(l, p), TRUE)

\* The loop of stepLeader that calls maybeSendAppend until it sends nothing, from each
\* of a set of states: a call that sends nothing changes nothing
SendRest(states) ==
    LET calls[k \in 0..MaxLog] ==
          IF k = 0 THEN states ELSE {Call(s, FALSE) : s \in calls[k - 1]}
    IN  calls[MaxLog]

\* What a useful acknowledgement of index k does to the state of the follower
Advanced(l, p, k) ==
    CASE p.state = "Probe" -> BecomeReplicate(p)
      [] p.state = "Snapshot" /\ p.match + 1 >= l.first -> BecomeReplicate(BecomeProbe(p))
      [] p.state = "Replicate" -> FreeLE(p, k)
      [] OTHER -> p

\* maybeCommit, for which the leader and the follower are a quorum, and what is sent
CommitAndSend(l, p) ==
    CASE p.match > l.commit /\ p.match >= Own -> SendAppend([l EXCEPT !.commit = p.match], p)
      [] ~(p.match > l.commit /\ p.match >= Own) /\ CanBumpCommit(p, l.commit) ->
           SendAppend(l, p)
      [] OTHER -> Quiet(l, p)

\* MsgAppResp without Reject: the one state it leads to, as a set
StepAck(l, p, k) ==
    IF k > p.match \/ (k = p.match /\ p.state = "Probe")
    THEN SendRest({CommitAndSend(l, next) : next \in {Advanced(l, MaybeUpdate(p, k), k)}})
    ELSE {Quiet(l, p)}

\* MsgAppResp with Reject: the leader has the term of the hint where the follower has it
StepReject(l, p, m) ==
    LET decr == DecrTo(p, m.index, m.hint)
        probe == IF decr.state = "Replicate" THEN BecomeProbe(decr) ELSE decr
    IN  IF RejectionIsCurrent(p, m.index) THEN SendAppend(l, probe) ELSE Quiet(l, p)

\* Faulty: the answer to a heartbeat does not end a pause
MutStepHeartbeatResp(l, p) ==
    LET heard == [p EXCEPT !.active = TRUE]
    IN  IF p.match < l.last \/ p.state = "Probe" THEN SendAppend(l, heard)
        ELSE Quiet(l, heard)

\* MsgHeartbeatResp
StepHeartbeatResp(l, p) ==
    LET heard == [p EXCEPT !.active = TRUE, !.paused = FALSE]
    IN  IF p.match < l.last \/ p.state = "Probe" THEN SendAppend(l, heard)
        ELSE Quiet(l, heard)

-----------------------------------------------------------------------------
(***************************************************************************)
(* Init: the leader has just been elected and has appended and sent its    *)
(* first entry.                                                            *)
(***************************************************************************)
ResetProgress ==
    [state |-> "Probe", match |-> 0, next |-> Own, paused |-> FALSE, sentCommit |-> 0,
     inflights |-> <<>>, pending |-> 0, active |-> FALSE]

Init ==
    /\ variant \in Built
    /\ ld \in [first : {1}, last : {Own}, commit : 0..Own - 1, ready : {TRUE}]
    /\ fw \in {f \in [last : 0..Own - 1, commit : 0..Own - 1] :
                  f.commit <= Min({f.last, ld.commit})}
    /\ LET out == SendAppend(ld, ResetProgress)
       IN  pr = out.pr /\ wire = out.msgs
    /\ faults = 0

-----------------------------------------------------------------------------
(***************************************************************************)
(* What happens at the leader.                                             *)
(***************************************************************************)
Emit(states) ==
    /\ Cardinality(wire) < MaxWire
    /\ \E out \in states : pr' = out.pr /\ wire' = wire \cup out.msgs

\* A proposal is appended and sent
Propose ==
    /\ ld.last < MaxLog
    /\ ld' = [ld EXCEPT !.last = @ + 1]
    /\ Emit({SendAppend(ld', pr)})
    /\ UNCHANGED <<variant, fw, faults>>

\* The other voters have acknowledged the log up to k, and the commit index is sent
OthersCommit(k) ==
    /\ k > ld.commit
    /\ ld' = [ld EXCEPT !.commit = k]
    /\ Emit({SendAppend(ld', pr)})
    /\ UNCHANGED <<variant, fw, faults>>

\* The application makes a snapshot at k and compacts the log up to it; the storage
\* may need time before it can hand the snapshot out
Compact(k, ready) ==
    /\ k \in ld.first..ld.commit
    /\ ld' = [ld EXCEPT !.first = k + 1, !.ready = ready]
    /\ UNCHANGED <<variant, pr, fw, wire, faults>>

SnapshotReady ==
    /\ ~ld.ready
    /\ ld' = [ld EXCEPT !.ready = TRUE]
    /\ UNCHANGED <<variant, pr, fw, wire, faults>>

\* Faulty: the commit index is sent as it is
MutBeat ==
    /\ pr' = [pr EXCEPT !.sentCommit = ld.commit]
    /\ fw' = [fw EXCEPT !.commit = Max({@, ld.commit})]
    /\ UNCHANGED <<variant, ld, wire, faults>>

\* sendHeartbeat, and handleHeartbeat at the follower
Beat ==
    LET commit == Min({pr.match, ld.commit})
    IN  /\ pr' = [pr EXCEPT !.sentCommit = commit]
        /\ fw' = [fw EXCEPT !.commit = Max({@, commit})]
        /\ UNCHANGED <<variant, ld, wire, faults>>

HeartbeatResp ==
    /\ Emit({StepHeartbeatResp(ld, pr)})
    /\ UNCHANGED <<variant, ld, fw, faults>>

\* MsgCheckQuorum at a leader that is active by the other voters
CheckQuorum ==
    /\ pr.active
    /\ pr' = [pr EXCEPT !.active = FALSE]
    /\ UNCHANGED <<variant, ld, fw, wire, faults>>

\* MsgUnreachable
ReportUnreachable ==
    /\ pr.state = "Replicate"
    /\ faults < MaxFaults
    /\ faults' = faults + 1
    /\ pr' = BecomeProbe(pr)
    /\ UNCHANGED <<variant, ld, fw, wire>>

\* MsgSnapStatus
ReportSnapshot(failed) ==
    /\ pr.state = "Snapshot"
    /\ pr' = [BecomeProbe([pr EXCEPT !.pending = IF failed THEN 0 ELSE @])
                EXCEPT !.paused = TRUE]
    /\ UNCHANGED <<variant, ld, fw, wire, faults>>

-----------------------------------------------------------------------------
(***************************************************************************)
(* A message arrives.  It may arrive again, or be lost.                    *)
(***************************************************************************)
Ack(k) == [type |-> "MsgAppResp", index |-> k]

\* m is delivered, once or not for the last time, and answered
Answered(m, msgs) ==
    \/ wire' = (wire \ {m}) \cup msgs /\ faults' = faults
    \/ wire' = wire \cup msgs /\ faults < MaxFaults /\ faults' = faults + 1

Lose(m) ==
    /\ faults < MaxFaults
    /\ faults' = faults + 1
    /\ wire' = wire \ {m}
    /\ UNCHANGED <<variant, ld, pr, fw>>

\* handleAppendEntries
ReceiveApp(m) ==
    LET last == m.index + m.count
    IN  /\ m.type = "MsgApp"
        /\ \/ /\ m.index < fw.commit
              /\ fw' = fw
              /\ Answered(m, {Ack(fw.commit)})
           \/ /\ m.index \in fw.commit..fw.last
              /\ fw' = [last |-> Max({fw.last, last}),
                        commit |-> Max({fw.commit, Min({m.commit, last})})]
              /\ Answered(m, {Ack(last)})
           \/ /\ m.index > fw.last
              /\ fw' = fw
              /\ Answered(m, {[type |-> "Reject", index |-> m.index, hint |-> fw.last]})
        /\ UNCHANGED <<variant, ld, pr>>

\* handleSnapshot, restore
ReceiveSnap(m) ==
    /\ m.type = "MsgSnap"
    /\ \/ /\ m.index <= fw.last
          /\ fw' = [fw EXCEPT !.commit = Max({@, m.index})]
          /\ Answered(m, {Ack(fw'.commit)})
       \/ /\ m.index > fw.last
          /\ fw' = [last |-> m.index, commit |-> m.index]
          /\ Answered(m, {Ack(m.index)})
    /\ UNCHANGED <<variant, ld, pr>>

ReceiveAck(m) ==
    /\ m.type = "MsgAppResp"
    /\ \E out \in StepAck(ld, [pr EXCEPT !.active = TRUE], m.index) :
          /\ ld' = out.ld
          /\ pr' = out.pr
          /\ Answered(m, out.msgs)
    /\ UNCHANGED <<variant, fw>>

ReceiveReject(m) ==
    /\ m.type = "Reject"
    /\ \E out \in {StepReject(ld, [pr EXCEPT !.active = TRUE], m)} :
          /\ pr' = out.pr
          /\ Answered(m, out.msgs)
    /\ UNCHANGED <<variant, ld, fw>>

Receive(m) == ReceiveApp(m) \/ ReceiveSnap(m) \/ ReceiveAck(m) \/ ReceiveReject(m)

Next ==
    \/ Propose
    \/ \E k \in Own..ld.last : OthersCommit(k)
    \/ \E k \in ld.first..ld.commit, ready \in BOOLEAN : Compact(k, ready)
    \/ SnapshotReady
    \/ Beat
    \/ HeartbeatResp
    \/ CheckQuorum
    \/ ReportUnreachable
    \/ \E failed \in BOOLEAN : ReportSnapshot(failed)
    \/ \E m \in wire : Lose(m) \/ Receive(m)

\* The messages about a log of k entries
Messages(k) ==
    [type : {"MsgApp"}, index : 0..k, count : 0..MaxEnts, commit : 0..k]
      \cup [type : {"MsgSnap"}, index : 0..k] \cup [type : {"MsgAppResp"}, index : 0..k]
      \cup [type : {"Reject"}, index : 0..k, hint : 0..k]

\* The leader beats and is answered, every message that is under way arrives, and the
\* storage and the transport report what they have done
Fairness ==
    /\ WF_vars(Beat)
    /\ WF_vars(HeartbeatResp)
    /\ WF_vars(SnapshotReady)
    /\ WF_vars(\E failed \in BOOLEAN : ReportSnapshot(failed))
    /\ \A m \in Messages(MaxLog) : WF_vars(m \in wire /\ Receive(m))

Spec == Init /\ [][Next]_vars /\ Fairness

-----------------------------------------------------------------------------
(***************************************************************************)
(* Correctness.                                                            *)
(***************************************************************************)
\* The types; a snapshot is pending only as long as the follower is sent no entries.
TypeOK ==
    /\ variant \in Variants
    /\ ld \in Log
    /\ pr \in Progress
    /\ pr.state # "Snapshot" => pr.pending = 0
    /\ fw \in [last : Nat, commit : Nat]
    /\ wire \subseteq AppMsg \cup SnapMsg \cup AckMsg \cup RejectMsg
    /\ faults \in 0..MaxFaults

\* The state is typed, and the window holds no more messages than it is made for (Inflights.Add panics on a
\* full one), ends where the next message starts, and is empty outside replication
\* (IsPaused and Full in maybeSendAppend, FreeLE in stepLeader).
WindowIsKept ==
    /\ TypeOK
    /\ Len(pr.inflights) <= MaxInflight
    /\ pr.inflights # <<>> => pr.state = "Replicate" /\ Last(pr.inflights) = pr.next - 1
    /\ pr.state = "Replicate" /\ pr.next > pr.match + 1 => pr.inflights # <<>>
    /\ pr.next \in pr.match + 1 .. ld.last + 1

\* Whatever the leader counts as acknowledged or announces as committed, the follower
\* has (MaybeUpdate, sendHeartbeat, handleAppendEntries).
FollowerHasIt ==
    /\ pr.match <= fw.last
    /\ fw.commit <= Min({fw.last, ld.commit})

\* Every form of maybeSendAppend does what the baseline does, unless the caller wants no
\* empty message and the entries the follower needs next have been compacted away: then
\* the forms differ in whether a snapshot is sent now or by a later call.
FormsAgree ==
    \A v \in Variants, sendIfEmpty \in BOOLEAN, f \in ld.first..ld.commit + 1 :
        LET out == Form(v, ld, pr, sendIfEmpty, f)
            base == Baseline(ld, pr, sendIfEmpty, f)
        IN  \/ out = base
            \/ /\ ~sendIfEmpty
               /\ TermFails(ld, pr) \/ FetchFails(ld, pr, f)
               /\ \A o \in {out, base} : o.msg = Nothing \/ o.msg.type = "MsgSnap"

\* The follower ends up with the whole log, committed, with every form of
\* maybeSendAppend, however its window, pauses and snapshots stand when messages are
\* lost: "replication to that follower would stall" otherwise (maybeSendAppend).
CatchesUp == <>[](fw.last = ld.last /\ fw.commit = ld.last)

=============================================================================
