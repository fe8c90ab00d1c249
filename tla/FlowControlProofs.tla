--------------------------- MODULE FlowControlProofs ---------------------------
(***************************************************************************)
(* The accepted forms of maybeSendAppend do what the baseline does, for    *)
(* every log, every progress and every moment at which the log is          *)
(* compacted, but for a snapshot that is sent sooner or later; they never  *)
(* overflow the window, and the leader counts nothing that the follower    *)
(* does not have.                                                          *)
(***************************************************************************)
EXTENDS FlowControl, NumberLemmas, SequenceTheorems, TLAPS

\* Two forms differ at most in whether a snapshot is sent now or by a later call
Snapshots(o) == o.msg = Nothing \/ o.msg.type = "MsgSnap"

-----------------------------------------------------------------------------
\* A form sends nothing or a snapshot where it calls maybeSendSnapshot or gives up.
LEMMA QuietOrSnapshot ==
    ASSUME NEW l, NEW p
    PROVE  Snapshots(SendNothing(p)) /\ Snapshots(SendSnapshot(l, p))
BY DEF Snapshots, SendNothing, SendSnapshot, Sent

\* What follows the shortcuts: where the term and the entries are at hand, the baseline
\* and the evolved forms do the same; otherwise both give up or send a snapshot.
LEMMA EvolvedIsBaseline ==
    ASSUME NEW l, NEW p, NEW sendIfEmpty \in BOOLEAN, NEW f, ~IsPaused(p)
    PROVE  \/ Evolved(l, p, sendIfEmpty, f) = Baseline(l, p, sendIfEmpty, f)
           \/ /\ ~sendIfEmpty /\ ~TermFails(l, p) /\ FetchFails(l, p, f)
              /\ Snapshots(Evolved(l, p, sendIfEmpty, f))
              /\ Snapshots(Baseline(l, p, sendIfEmpty, f))
<1>1. CASE TermFails(l, p)
  BY <1>1 DEF Evolved, Baseline
<1>2. CASE ~TermFails(l, p) /\ FetchFails(l, p, f)
  <2>1. Fetched(l, p, f) = 0
    BY <1>2 DEF Fetched
  <2>2. Evolved(l, p, sendIfEmpty, f) = SendSnapshot([l EXCEPT !.first = f], p)
    BY <1>2 DEF Evolved
  <2>3. CASE sendIfEmpty
    BY <1>2, <2>2, <2>3 DEF Baseline
  <2>4. CASE ~sendIfEmpty
    <3>1. Baseline(l, p, sendIfEmpty, f) = SendNothing(p)
      BY <1>2, <2>1, <2>4 DEF Baseline
    <3> QED
      BY <1>2, <2>2, <2>4, <3>1, QuietOrSnapshot
  <2> QED
    BY <2>3, <2>4
<1>3. CASE ~TermFails(l, p) /\ ~FetchFails(l, p, f)
  BY <1>3 DEF Evolved, Baseline
<1> QED
  BY <1>1, <1>2, <1>3

\* A shortcut is taken where the baseline finds nothing to send.
LEMMA ShortcutIsBaseline ==
    ASSUME NEW l, NEW p, NEW f, ~IsPaused(p),
           Throttled(p) \/ CaughtUp(l, p)
    PROVE  \/ SendNothing(p) = Baseline(l, p, FALSE, f)
           \/ /\ TermFails(l, p)
              /\ Snapshots(Baseline(l, p, FALSE, f))
<1>1. Fetched(l, p, f) = 0
  BY DEF Fetched, CaughtUp
<1>2. CASE TermFails(l, p)
  <2>1. Baseline(l, p, FALSE, f) = SendSnapshot(l, p)
    BY <1>2 DEF Baseline
  <2> QED
    BY <1>2, <2>1, QuietOrSnapshot
<1>3. CASE ~TermFails(l, p)
  BY <1>1, <1>3 DEF Baseline
<1> QED
  BY <1>2, <1>3

\* The forms of maybeSendAppend are the baseline, except that a caller who wants no
\* empty message may get a snapshot sooner or later when what the follower needs next is
\* compacted away (maybeSendAppend, maybeSendSnapshot).  Nothing is assumed of the log,
\* of the progress, or of when the log is compacted.
THEOREM FormsAreBaseline ==
    ASSUME NEW v \in Variants, NEW l, NEW p, NEW sendIfEmpty \in BOOLEAN, NEW f
    PROVE  LET out == Form(v, l, p, sendIfEmpty, f)
               base == Baseline(l, p, sendIfEmpty, f)
           IN  \/ out = base
               \/ /\ ~sendIfEmpty
                  /\ TermFails(l, p) \/ FetchFails(l, p, f)
                  /\ Snapshots(out) /\ Snapshots(base)
<1> DEFINE out == Form(v, l, p, sendIfEmpty, f)
           base == Baseline(l, p, sendIfEmpty, f)
           evolved == Evolved(l, p, sendIfEmpty, f)
           Close(o) == \/ o = base
                       \/ /\ ~sendIfEmpty
                          /\ TermFails(l, p) \/ FetchFails(l, p, f)
                          /\ Snapshots(o) /\ Snapshots(base)
<1>1. CASE IsPaused(p)
  <2>1. base = SendNothing(p)
    BY <1>1 DEF Baseline
  <2>2. out \in {base, SendNothing(p)}
    BY <1>1 DEF Form, Variants, Best, Rerun, Noted
  <2> QED
    BY <2>1, <2>2
<1>2. CASE ~IsPaused(p)
  <2>1. Close(evolved)
    BY <1>2, EvolvedIsBaseline
  <2>2. ASSUME ~sendIfEmpty, Throttled(p) \/ CaughtUp(l, p)
        PROVE  Close(SendNothing(p))
    <3>1. sendIfEmpty = FALSE
      BY <2>2
    <3>2. \/ SendNothing(p) = base
          \/ TermFails(l, p) /\ Snapshots(base)
      BY <1>2, <2>2, <3>1, ShortcutIsBaseline
    <3> QED
      BY <2>2, <3>2, QuietOrSnapshot
  <2>3. \/ out = base
        \/ out = evolved
        \/ /\ ~sendIfEmpty /\ (Throttled(p) \/ CaughtUp(l, p))
           /\ out = SendNothing(p)
    BY <1>2 DEF Form, Variants, Best, Rerun, Noted
  <2> QED
    BY <2>1, <2>2, <2>3
<1> QED
  BY <1>1, <1>2

\* In every state of a leadership, the forms agree with the baseline as FormsAgree says.
THEOREM VariantsAgree == Spec => []FormsAgree
<1>1. FormsAgree
  <2>1. ASSUME NEW v \in Variants, NEW sendIfEmpty \in BOOLEAN,
               NEW f \in ld.first..ld.commit + 1
        PROVE  LET out == Form(v, ld, pr, sendIfEmpty, f)
                   base == Baseline(ld, pr, sendIfEmpty, f)
               IN  \/ out = base
                   \/ /\ ~sendIfEmpty
                      /\ TermFails(ld, pr) \/ FetchFails(ld, pr, f)
                      /\ Snapshots(out) /\ Snapshots(base)
    BY FormsAreBaseline
  <2> QED
    BY <2>1 DEF FormsAgree, Snapshots
<1> QED
  BY <1>1, PTL

-----------------------------------------------------------------------------
(***************************************************************************)
(* The window is kept, and the follower has what the leader counts on: the *)
(* parts of the invariant.                                                 *)
(***************************************************************************)

\* A log of the leader
LogOK(l) == l \in Log /\ Own =< l.last /\ l.commit =< l.last /\ l.first =< l.commit + 1

\* The window of progress p: the last message in it is the last that was sent
Window(p) ==
    /\ Len(p.inflights) =< MaxInflight
    /\ p.state # "Replicate" => p.inflights = <<>>
    /\ p.state = "Replicate" /\ p.inflights = <<>> => p.next = p.match + 1
    /\ p.inflights # <<>> => p.inflights[Len(p.inflights)] = p.next - 1
    /\ \A x \in 1..Len(p.inflights) : p.inflights[x] < p.next

ProgressOK(l, p) ==
    /\ p \in Progress
    /\ p.state # "Snapshot" => p.pending = 0
    /\ p.pending =< l.last
    /\ Window(p)
    /\ p.match < p.next /\ p.next =< l.last + 1

\* A message of the leader with log l, and one of the follower whose log ends at k
FromLeader(l, m) ==
    \/ m \in AppMsg /\ m.index + m.count =< l.last /\ m.commit =< l.commit
    \/ m \in SnapMsg /\ m.index =< l.commit

FromFollower(k, m) == (m \in AckMsg /\ m.index =< k) \/ m \in RejectMsg

FollowerOK ==
    /\ fw \in [last : Nat, commit : Nat]
    /\ pr.match =< fw.last /\ fw.last =< ld.last
    /\ fw.commit =< fw.last /\ fw.commit =< ld.commit

\* The inductive invariant
FlowInv ==
    /\ variant \in Variants /\ faults \in 0..MaxFaults
    /\ LogOK(ld) /\ ProgressOK(ld, pr) /\ FollowerOK
    /\ \A m \in wire : FromLeader(ld, m) \/ FromFollower(fw.last, m)

\* What the calls of the leader return, from log l and progress with match k
States == [ld : Log, pr : Progress, msgs : SUBSET (AppMsg \cup SnapMsg)]

Outcomes(l, k) ==
    {s \in States : /\ LogOK(s.ld) /\ s.ld.last = l.last /\ s.ld.commit >= l.commit
                    /\ ProgressOK(s.ld, s.pr) /\ s.pr.match = k
                    /\ \A m \in s.msgs : FromLeader(s.ld, m)}

-----------------------------------------------------------------------------
(***************************************************************************)
(* tracker.Progress and tracker.Inflights.                                 *)
(***************************************************************************)

\* The fields of a progress
LEMMA ProgressTypes ==
    ASSUME NEW p \in Progress
    PROVE  /\ p.state \in {"Probe", "Replicate", "Snapshot"} /\ p.match \in Nat
           /\ p.next \in Nat /\ p.next # 0 /\ p.paused \in BOOLEAN /\ p.sentCommit \in Nat
           /\ p.inflights \in Seq(Nat) /\ p.pending \in Nat /\ p.active \in BOOLEAN
  BY DEF Progress

LEMMA LogTypes ==
    ASSUME NEW l, LogOK(l)
    PROVE  /\ l \in Log /\ l.first \in Nat /\ l.first # 0 /\ l.last \in Nat
           /\ l.commit \in Nat /\ l.ready \in BOOLEAN
           /\ Own =< l.last /\ l.commit =< l.last /\ l.first =< l.commit + 1
  BY DEF LogOK, Log

\* An empty window outside replication, or at its beginning, is kept
LEMMA EmptyWindow ==
    ASSUME NEW p \in Progress, p.inflights = <<>>, p.state = "Replicate" => p.next = p.match + 1
    PROVE  Window(p)
  BY SizeAssumption DEF Window

LEMMA NoneInFlight == <<>> \in Seq(Nat)
  OBVIOUS

LEMMA ResetStateOK ==
    ASSUME NEW p \in Progress, NEW state \in {"Probe", "Replicate", "Snapshot"}
    PROVE  /\ ResetState(p, state) \in Progress
           /\ ResetState(p, state).state = state /\ ResetState(p, state).pending = 0
           /\ ResetState(p, state).inflights = <<>> /\ ResetState(p, state).match = p.match
           /\ ResetState(p, state).next = p.next
           /\ ResetState(p, state).sentCommit = p.sentCommit
<1>1. <<>> \in Seq(Nat)
  BY NoneInFlight
<1>2. ResetState(p, state) \in Progress
  BY <1>1 DEF ResetState, Progress
<1> QED
  BY <1>2 DEF ResetState, Progress

LEMMA BecomeProbeOK ==
    ASSUME NEW l, LogOK(l), NEW p \in Progress, p.match < p.next, p.next =< l.last + 1,
           p.pending =< l.last
    PROVE  /\ ProgressOK(l, BecomeProbe(p)) /\ BecomeProbe(p).state = "Probe"
           /\ BecomeProbe(p).match = p.match
<1> DEFINE next == IF p.state = "Snapshot" THEN Max({p.match, p.pending}) + 1 ELSE p.match + 1
           q == ResetState(p, "Probe")
<1>1. /\ p.match \in Nat /\ p.pending \in Nat /\ p.next \in Nat /\ l.last \in Nat
      /\ p.sentCommit \in Nat
  BY ProgressTypes, LogTypes
<1>2. Max({p.match, p.pending}) = IF p.match >= p.pending THEN p.match ELSE p.pending
  BY <1>1, MaxPair
<1>3. next \in Nat \ {0} /\ p.match < next /\ next =< l.last + 1 /\ next - 1 \in Nat
  BY <1>1, <1>2
<1> HIDE DEF next
<1>4. Min({p.sentCommit, next - 1}) \in Nat
  BY <1>1, <1>3, MinPair
<1>5. /\ q \in Progress /\ q.state = "Probe" /\ q.pending = 0 /\ q.inflights = <<>>
      /\ q.match = p.match /\ q.sentCommit = p.sentCommit
  BY ResetStateOK
<1>6. BecomeProbe(p) = [q EXCEPT !.next = next, !.sentCommit = Min({q.sentCommit, next - 1})]
  BY DEF BecomeProbe, next
<1> HIDE DEF q
<1>7. /\ BecomeProbe(p) \in Progress /\ BecomeProbe(p).state = "Probe"
      /\ BecomeProbe(p).pending = 0 /\ BecomeProbe(p).inflights = <<>>
      /\ BecomeProbe(p).match = p.match /\ BecomeProbe(p).next = next
  <2>1. PICK k \in Nat : k = Min({q.sentCommit, next - 1})
    BY <1>4, <1>5
  <2>2. BecomeProbe(p) = [q EXCEPT !.next = next, !.sentCommit = k]
    BY <1>6, <2>1
  <2>3. BecomeProbe(p) \in Progress
    BY <1>3, <1>5, <2>2 DEF Progress
  <2> QED
    BY <1>5, <2>2, <2>3 DEF Progress
<1>8. Window(BecomeProbe(p))
  BY <1>7, EmptyWindow
<1> QED
  BY <1>1, <1>3, <1>7, <1>8 DEF ProgressOK

LEMMA BecomeReplicateOK ==
    ASSUME NEW l, LogOK(l), NEW p \in Progress, p.match =< l.last
    PROVE  ProgressOK(l, BecomeReplicate(p)) /\ BecomeReplicate(p).match = p.match
<1> DEFINE q == ResetState(p, "Replicate")
<1>1. p.match \in Nat /\ l.last \in Nat
  BY ProgressTypes, LogTypes
<1>2. /\ q \in Progress /\ q.state = "Replicate" /\ q.pending = 0 /\ q.inflights = <<>>
      /\ q.match = p.match
  BY ResetStateOK
<1>3. BecomeReplicate(p) = [q EXCEPT !.next = p.match + 1]
  BY DEF BecomeReplicate
<1> HIDE DEF q
<1>4. /\ BecomeReplicate(p) \in Progress /\ BecomeReplicate(p).state = "Replicate"
      /\ BecomeReplicate(p).pending = 0 /\ BecomeReplicate(p).inflights = <<>>
      /\ BecomeReplicate(p).match = p.match /\ BecomeReplicate(p).next = p.match + 1
  <2>1. p.match + 1 \in Nat \ {0}
    BY <1>1
  <2>2. BecomeReplicate(p) \in Progress
    BY <1>2, <1>3, <2>1 DEF Progress
  <2> QED
    BY <1>2, <1>3, <2>2 DEF Progress
<1>5. Window(BecomeReplicate(p))
  BY <1>4, EmptyWindow
<1> QED
  BY <1>1, <1>4, <1>5 DEF ProgressOK

LEMMA BecomeSnapshotOK ==
    ASSUME NEW l, LogOK(l), NEW p, ProgressOK(l, p), NEW k \in Nat, p.match =< k, k =< l.last
    PROVE  ProgressOK(l, BecomeSnapshot(p, k)) /\ BecomeSnapshot(p, k).match = p.match
<1> DEFINE q == ResetState(p, "Snapshot")
<1>1. p \in Progress
  BY DEF ProgressOK
<1>2. p.match \in Nat /\ l.last \in Nat
  BY <1>1, ProgressTypes, LogTypes
<1>3. q \in Progress /\ q.state = "Snapshot" /\ q.inflights = <<>> /\ q.match = p.match
  BY <1>1, ResetStateOK
<1>4. BecomeSnapshot(p, k) = [q EXCEPT !.pending = k, !.next = k + 1, !.sentCommit = k]
  BY DEF BecomeSnapshot
<1> HIDE DEF q
<1>5. /\ BecomeSnapshot(p, k) \in Progress /\ BecomeSnapshot(p, k).state = "Snapshot"
      /\ BecomeSnapshot(p, k).pending = k /\ BecomeSnapshot(p, k).inflights = <<>>
      /\ BecomeSnapshot(p, k).match = p.match /\ BecomeSnapshot(p, k).next = k + 1
  <2>1. k + 1 \in Nat \ {0}
    OBVIOUS
  <2>2. BecomeSnapshot(p, k) \in Progress
    BY <1>3, <1>4, <2>1 DEF Progress
  <2> QED
    BY <1>3, <1>4, <2>2 DEF Progress
<1>6. Window(BecomeSnapshot(p, k))
  BY <1>5, EmptyWindow
<1> QED
  BY <1>2, <1>5, <1>6 DEF ProgressOK

\* Entries are sent where the window has room for a message
LEMMA SentEntriesOK ==
    ASSUME NEW l, LogOK(l), NEW p, ProgressOK(l, p), NEW count \in Nat,
           p.next + count =< l.last + 1,
           count > 0 => ~Throttled(p) /\ p.state # "Snapshot"
    PROVE  ProgressOK(l, SentEntries(p, count)) /\ SentEntries(p, count).match = p.match
<1> DEFINE s == p.inflights
           o == SentEntries(p, count)
<1>1. p \in Progress
  BY DEF ProgressOK
<1>2. /\ p.match \in Nat /\ p.next \in Nat /\ p.next # 0 /\ s \in Seq(Nat)
      /\ p.paused \in BOOLEAN /\ l.last \in Nat /\ MaxInflight \in Nat
  BY <1>1, ProgressTypes, LogTypes, SizeAssumption
<1>3. CASE p.state # "Replicate"
  <2>1. o = [p EXCEPT !.paused = @ \/ count > 0]
    BY <1>3 DEF SentEntries
  <2>2. /\ o \in Progress /\ o.state = p.state /\ o.match = p.match /\ o.next = p.next
        /\ o.inflights = s /\ o.pending = p.pending
    BY <1>1, <1>2, <2>1 DEF Progress
  <2> HIDE DEF o
  <2> QED
    BY <2>2 DEF ProgressOK, Window, o
<1>4. CASE p.state = "Replicate" /\ count = 0
  <2>1. o = [p EXCEPT !.paused = Full(p)]
    BY <1>4 DEF SentEntries
  <2>2. /\ o \in Progress /\ o.state = p.state /\ o.match = p.match /\ o.next = p.next
        /\ o.inflights = s /\ o.pending = p.pending
    <3>1. PICK paused \in BOOLEAN : paused = Full(p)
      <4>1. Full(p) \in BOOLEAN
        BY DEF Full
      <4> QED
        BY <4>1, Zenon
    <3>2. o = [p EXCEPT !.paused = paused]
      BY <2>1, <3>1
    <3> HIDE DEF o
    <3>3. o \in Progress
      BY <1>1, <3>2 DEF Progress
    <3> QED
      BY <1>1, <3>2, <3>3 DEF Progress
  <2> HIDE DEF o
  <2> QED
    BY <2>2 DEF ProgressOK, Window, o
<1>5. CASE p.state = "Replicate" /\ count > 0
  <2> DEFINE t == Append(s, p.next + count - 1)
             q == [p EXCEPT !.next = p.next + count, !.inflights = t]
  <2>1. Len(s) < MaxInflight
    <3>1. ~Full(p) /\ Len(s) \in Nat
      BY <1>2, <1>5 DEF Throttled
    <3> QED
      BY <1>2, <3>1 DEF Full
  <2>2. /\ t \in Seq(Nat) /\ Len(t) = Len(s) + 1 /\ t[Len(s) + 1] = p.next + count - 1
        /\ \A x \in 1..Len(s) : t[x] = s[x]
    BY <1>2, <1>5
  <2>3. t # <<>>
    BY <1>2, <2>2
  <2> HIDE DEF t
  <2>4. /\ q \in Progress /\ q.state = "Replicate" /\ q.match = p.match
        /\ q.next = p.next + count /\ q.inflights = t /\ q.pending = p.pending
    <3>1. p.next + count \in Nat \ {0}
      BY <1>2, <1>5
    <3>2. q \in Progress
      BY <1>1, <2>2, <3>1 DEF Progress
    <3> QED
      BY <1>1, <1>5, <3>2 DEF Progress
  <2>5. o = [q EXCEPT !.paused = Full(q)]
    BY <1>5 DEF SentEntries, t
  <2> HIDE DEF q, o
  <2>6. /\ o \in Progress /\ o.state = "Replicate" /\ o.match = p.match
        /\ o.next = p.next + count /\ o.inflights = t /\ o.pending = p.pending
    <3>1. PICK paused \in BOOLEAN : paused = Full(q)
      <4>1. Full(q) \in BOOLEAN
        BY DEF Full
      <4> QED
        BY <4>1, Zenon
    <3>2. o = [q EXCEPT !.paused = paused]
      BY <2>5, <3>1
    <3>3. o \in Progress
      BY <2>4, <3>2 DEF Progress
    <3> QED
      BY <2>4, <3>2, <3>3 DEF Progress
  <2>7. \A x \in 1..Len(t) : t[x] < p.next + count
    <3> SUFFICES ASSUME NEW x \in 1..Len(t) PROVE t[x] < p.next + count
      OBVIOUS
    <3>1. CASE x \in 1..Len(s)
      <4>1. t[x] = s[x] /\ s[x] < p.next /\ s[x] \in Nat
        <5>1. s[x] \in Nat
          BY <1>2, <3>1
        <5>2. t[x] = s[x]
          BY <2>2, <3>1
        <5>3. s[x] < p.next
          BY <3>1 DEF ProgressOK, Window
        <5> QED
          BY <5>1, <5>2, <5>3
      <4> QED
        BY <1>2, <1>5, <4>1
    <3>2. CASE x = Len(s) + 1
      BY <1>2, <2>2, <3>2
    <3> QED
      BY <1>2, <2>2, <3>1, <3>2
  <2>8. Window(o)
    <3>1. Len(o.inflights) =< MaxInflight
      BY <1>2, <2>1, <2>2, <2>6, SizeAssumption
    <3>2. \A x \in 1..Len(o.inflights) : o.inflights[x] < o.next
      BY <2>6, <2>7
    <3>3. o.inflights # <<>> /\ o.inflights[Len(o.inflights)] = o.next - 1
      <4>1. o.inflights[Len(o.inflights)] = t[Len(s) + 1]
        BY <2>2, <2>6
      <4>2. o.inflights[Len(o.inflights)] = p.next + count - 1
        BY <2>2, <4>1
      <4>3. o.inflights # <<>> /\ o.next = p.next + count
        BY <2>3, <2>6
      <4>4. p.next \in Nat
        BY <1>2
      <4>5. p.next + count - 1 = (p.next + count) - 1
        BY <4>4
      <4> QED
        BY <4>2, <4>3, <4>5
    <3> QED
      BY <2>6, <3>1, <3>2, <3>3 DEF Window
  <2>9. p.pending = 0 /\ p.match < p.next
    BY <1>5 DEF ProgressOK
  <2>10. o.match < o.next /\ o.next =< l.last + 1 /\ o.pending = 0 /\ o.pending =< l.last
    BY <1>2, <2>6, <2>9
  <2>11. ProgressOK(l, o) /\ o.match = p.match
    BY <2>6, <2>8, <2>10 DEF ProgressOK
  <2> QED
    BY <2>11 DEF o
<1> QED
  BY <1>2, <1>3, <1>4, <1>5

\* The commit index that was announced is not bounded by anything here
LEMMA SentCommitOK ==
    ASSUME NEW l, NEW p, ProgressOK(l, p), NEW k \in Nat
    PROVE  ProgressOK(l, [p EXCEPT !.sentCommit = k]) /\ [p EXCEPT !.sentCommit = k].match = p.match
<1> DEFINE o == [p EXCEPT !.sentCommit = k]
<1>1. p \in Progress
  BY DEF ProgressOK
<1>2. /\ o \in Progress /\ o.state = p.state /\ o.match = p.match /\ o.next = p.next
      /\ o.inflights = p.inflights /\ o.pending = p.pending
  BY <1>1 DEF Progress
<1> HIDE DEF o
<1>3. ProgressOK(l, o) /\ o.match = p.match
  BY <1>2 DEF ProgressOK, Window
<1> QED
  BY <1>3 DEF o

\* The loop of stepLeader stays in every set that a call of maybeSendAppend does not leave
LEMMA RestClosed ==
    ASSUME NEW states, NEW G, states \subseteq G, \A s \in G : Call(s, FALSE) \in G
    PROVE  SendRest(states) \subseteq G
<1> DEFINE next(S) == {Call(s, FALSE) : s \in S}
           Calls(g, n) == g = [k \in 0..n |-> IF k = 0 THEN states ELSE next(g[k - 1])]
           N == {n \in Nat : \E g : Calls(g, n)}
<1>1. N = Nat
  <2>1. 0 \in N
    <3>1. Calls([k \in 0..0 |-> states], 0)
      BY SMT
    <3> QED
      BY <3>1
  <2>2. ASSUME NEW n \in N PROVE n + 1 \in N
    <3>1. n \in Nat
      OBVIOUS
    <3>2. PICK g : Calls(g, n)
      BY <2>2
    <3> DEFINE h == [k \in 0..(n + 1) |-> IF k = n + 1 THEN next(g[n]) ELSE g[k]]
    <3> HIDE DEF next
    <3>3. \A k \in 0..(n + 1) : h[k] = IF k = 0 THEN states ELSE next(h[k - 1])
      <4> SUFFICES ASSUME NEW k \in 0..(n + 1)
                   PROVE  h[k] = IF k = 0 THEN states ELSE next(h[k - 1])
        OBVIOUS
      <4>1. CASE k = n + 1
        BY <3>1, <4>1
      <4>2. CASE k # n + 1
        <5>1. k \in 0..n /\ h[k] = g[k]
          BY <3>1, <4>2
        <5>2. k # 0 => k - 1 \in 0..n /\ h[k - 1] = g[k - 1]
          BY <3>1, <5>1
        <5> HIDE DEF h
        <5> QED
          BY <3>2, <5>1, <5>2
      <4> QED
        BY <4>1, <4>2
    <3>4. Calls(h, n + 1)
      BY <3>3
    <3> HIDE DEF h, Calls
    <3>5. n + 1 \in Nat /\ \E f : Calls(f, n + 1)
      BY <3>1, <3>4
    <3> QED
      BY <3>5
  <2> HIDE DEF N
  <2> QED
    BY <2>1, <2>2, AllNumbers DEF N
<1>2. PICK g : Calls(g, MaxLog)
  BY <1>1, SizeAssumption
<1>3. \E f : /\ Calls(f, MaxLog) /\ SendRest(states) = f[MaxLog]
  BY <1>2 DEF SendRest
<1>4. PICK f : Calls(f, MaxLog) /\ SendRest(states) = f[MaxLog]
  BY <1>3
<1> DEFINE M == {n \in Nat : n =< MaxLog => f[n] \subseteq G}
<1>5. M = Nat
  <2>1. 0 \in M
    <3> HIDE DEF next
    <3>1. 0 \in 0..MaxLog
      BY SizeAssumption
    <3>2. f[0] = states
      BY <1>4, <3>1
    <3> QED
      BY <3>2
  <2>2. ASSUME NEW n \in M PROVE n + 1 \in M
    <3>1. n \in Nat
      OBVIOUS
    <3>2. CASE n + 1 =< MaxLog
      <4>1. f[n] \subseteq G
        BY <3>1, <3>2, SizeAssumption
      <4>2. f[n + 1] = next(f[n])
        <5> HIDE DEF next
        <5>1. n + 1 \in 0..MaxLog /\ n + 1 # 0 /\ (n + 1) - 1 = n
          BY <3>1, <3>2, SizeAssumption
        <5> QED
          BY <1>4, <5>1
      <4>3. f[n + 1] \subseteq G
        BY <4>1, <4>2
      <4> QED
        BY <3>1, <4>3
    <3> QED
      BY <3>1, <3>2
  <2> HIDE DEF M
  <2> QED
    BY <2>1, <2>2, AllNumbers DEF M
<1>6. MaxLog \in M /\ MaxLog =< MaxLog
  BY <1>5, SizeAssumption
<1> QED
  BY <1>4, <1>6

\* What an acknowledgement frees is at the front of the window
LEMMA AdvancedOK ==
    ASSUME NEW l, LogOK(l), NEW p, ProgressOK(l, p), NEW k \in Nat, k =< l.last,
           k > p.match \/ (k = p.match /\ p.state = "Probe")
    PROVE  /\ ProgressOK(l, Advanced(l, MaybeUpdate(p, k), k))
           /\ Advanced(l, MaybeUpdate(p, k), k).match = k
<1> DEFINE u == MaybeUpdate(p, k)
           s == p.inflights
<1>1. p \in Progress
  BY DEF ProgressOK
<1>2. /\ p.match \in Nat /\ p.next \in Nat /\ p.next # 0 /\ s \in Seq(Nat)
      /\ p.state \in {"Probe", "Replicate", "Snapshot"} /\ p.pending \in Nat
      /\ l.last \in Nat /\ MaxInflight \in Nat
  BY <1>1, ProgressTypes, LogTypes, SizeAssumption
<1>3. /\ u \in Progress /\ u.match = k /\ u.state = p.state /\ u.inflights = s
      /\ u.pending = p.pending
      /\ u.next = IF p.next >= k + 1 THEN p.next ELSE k + 1
  <2>1. CASE k =< p.match
    <3>1. u = p /\ k = p.match
      BY <1>2, <2>1 DEF MaybeUpdate
    <3>2. p.next >= k + 1
      BY <1>2, <3>1 DEF ProgressOK
    <3> QED
      BY <1>1, <3>1, <3>2
  <2>2. CASE ~(k =< p.match)
    <3>1. Max({p.next, k + 1}) = IF p.next >= k + 1 THEN p.next ELSE k + 1
      BY <1>2, MaxPair
    <3>2. u = [p EXCEPT !.match = k, !.next = Max({p.next, k + 1}), !.paused = FALSE]
      BY <2>2 DEF MaybeUpdate
    <3>3. Max({p.next, k + 1}) \in Nat \ {0}
      BY <1>2, <3>1
    <3> QED
      BY <1>1, <3>1, <3>2, <3>3 DEF Progress
  <2> QED
    BY <2>1, <2>2
<1>4. u.match < u.next /\ u.next =< l.last + 1 /\ u.pending =< l.last /\ u.match =< l.last
  BY <1>2, <1>3 DEF ProgressOK
<1> HIDE DEF u
<1>5. CASE u.state = "Probe"
  <2>1. Advanced(l, u, k) = BecomeReplicate(u)
    BY <1>5 DEF Advanced
  <2> QED
    BY <1>3, <1>4, <2>1, BecomeReplicateOK DEF u
<1>6. CASE u.state = "Snapshot" /\ u.match + 1 >= l.first
  <2>1. Advanced(l, u, k) = BecomeReplicate(BecomeProbe(u))
    BY <1>6 DEF Advanced
  <2>2. ProgressOK(l, BecomeProbe(u)) /\ BecomeProbe(u).match = k
    BY <1>3, <1>4, BecomeProbeOK
  <2>3. BecomeProbe(u) \in Progress
    BY <2>2 DEF ProgressOK
  <2> QED
    BY <1>3, <1>4, <2>1, <2>2, <2>3, BecomeReplicateOK DEF u
<1>7. CASE u.state = "Snapshot" /\ ~(u.match + 1 >= l.first)
  <2>1. Advanced(l, u, k) = u
    BY <1>7 DEF Advanced
  <2>2. u.inflights = <<>>
    BY <1>3, <1>7 DEF ProgressOK, Window
  <2>3. Window(u)
    BY <1>3, <1>7, <2>2, EmptyWindow
  <2>4. ProgressOK(l, u)
    BY <1>3, <1>4, <1>7, <2>3 DEF ProgressOK
  <2> QED
    BY <1>3, <2>1, <2>4 DEF u
<1>8. CASE u.state = "Replicate"
  <2> DEFINE kept == {x \in DOMAIN s : s[x] > k}
             t == IF kept = {} THEN <<>> ELSE SubSeq(s, Min(kept), Len(s))
             o == Advanced(l, u, k)
  <2>1. o = [u EXCEPT !.inflights = t]
    BY <1>3, <1>8 DEF Advanced, FreeLE
  <2>2. k > p.match /\ u.pending = 0
    BY <1>3, <1>8 DEF ProgressOK
  <2>3. /\ t \in Seq(Nat) /\ Len(t) =< MaxInflight
        /\ t = <<>> => u.next = k + 1
        /\ t # <<>> => t[Len(t)] = u.next - 1
        /\ \A x \in 1..Len(t) : t[x] < u.next
    <3>1. CASE kept = {}
      <4>1. t = <<>> /\ <<>> \in Seq(Nat) /\ Len(<<>>) = 0
        BY <3>1
      <4>2. u.next = k + 1
        <5>1. CASE s = <<>>
          <6>1. p.next = p.match + 1
            BY <1>3, <1>8, <5>1 DEF ProgressOK, Window
          <6> QED
            BY <1>2, <1>3, <2>2, <6>1
        <5>2. CASE s # <<>>
          <6>1. s[Len(s)] = p.next - 1
            BY <5>2 DEF ProgressOK, Window
          <6>2. Len(s) \in DOMAIN s
            BY <1>2, <5>2
          <6>3. ~(s[Len(s)] > k)
            BY <3>1, <6>2
          <6> QED
            BY <1>2, <1>3, <6>1, <6>3
        <5> QED
          BY <5>1, <5>2
      <4> HIDE DEF t
      <4> QED
        BY <1>2, <4>1, <4>2
    <3>2. CASE kept # {}
      <4>1. DOMAIN s = 1..Len(s) /\ Len(s) \in Nat
        BY <1>2
      <4>2. kept \in SUBSET Nat
        BY <4>1
      <4> DEFINE a == Min(kept)
      <4>3. a \in kept
        <5> HIDE DEF kept
        <5> QED
          BY <3>2, <4>2, MinIn
      <4>4. a \in 1..Len(s) /\ s[a] > k
        BY <4>1, <4>3
      <4>5. t = SubSeq(s, a, Len(s))
        BY <3>2
      <4> HIDE DEF t, a, kept
      <4>6. /\ t \in Seq(Nat) /\ Len(t) = Len(s) - a + 1
            /\ \A x \in 1..Len(t) : t[x] = s[a + x - 1]
        <5>1. a \in 1..(Len(s) + 1) /\ Len(s) \in 0..Len(s)
          BY <4>1, <4>4
        <5>2. /\ SubSeq(s, a, Len(s)) \in Seq(Nat)
              /\ Len(SubSeq(s, a, Len(s))) = Len(s) - a + 1
              /\ \A x \in 1..(Len(s) - a + 1) : SubSeq(s, a, Len(s))[x] = s[a + x - 1]
          BY <1>2, <4>1, <4>4
        <5> QED
          BY <4>5, <5>2
      <4>7. /\ Len(s) =< MaxInflight /\ s[Len(s)] = p.next - 1
            /\ \A x \in 1..Len(s) : s[x] < p.next /\ s[x] \in Nat
        <5>1. s # <<>>
          BY <4>1, <4>4
        <5> QED
          BY <1>2, <5>1 DEF ProgressOK, Window
      <4>8. u.next = p.next
        BY <1>2, <1>3, <4>4, <4>7
      <4>9. Len(t) \in 1..Len(s) /\ a + Len(t) - 1 = Len(s)
        BY <4>1, <4>4, <4>6
      <4>10. t[Len(t)] = u.next - 1
        BY <4>6, <4>7, <4>8, <4>9
      <4>11. \A x \in 1..Len(t) : a + x - 1 \in 1..Len(s)
        BY <4>1, <4>4, <4>9
      <4>12. \A x \in 1..Len(t) : t[x] < u.next
        BY <4>6, <4>7, <4>8, <4>11
      <4>13. Len(t) =< MaxInflight /\ t # <<>>
        BY <1>2, <4>1, <4>7, <4>9
      <4> QED
        BY <4>6, <4>10, <4>12, <4>13
    <3> QED
      BY <3>1, <3>2
  <2> HIDE DEF t
  <2>4. /\ o \in Progress /\ o.state = "Replicate" /\ o.match = k /\ o.next = u.next
        /\ o.inflights = t /\ o.pending = 0
    BY <1>3, <1>8, <2>1, <2>2, <2>3 DEF Progress
  <2> HIDE DEF o
  <2>5. Window(o)
    BY <2>3, <2>4 DEF Window
  <2>6. ProgressOK(l, o)
    BY <1>2, <1>3, <1>4, <2>4, <2>5 DEF ProgressOK
  <2> QED
    BY <2>4, <2>6 DEF o, u
<1> QED
  BY <1>2, <1>3, <1>5, <1>6, <1>7, <1>8

\* A rejection makes the leader probe, from behind what it has sent
LEMMA ProbesOK ==
    ASSUME NEW l, LogOK(l), NEW p, ProgressOK(l, p), NEW rejected \in Nat, NEW hint \in Nat,
           RejectionIsCurrent(p, rejected)
    PROVE  LET decr == DecrTo(p, rejected, hint)
               probe == IF decr.state = "Replicate" THEN BecomeProbe(decr) ELSE decr
           IN  ProgressOK(l, probe) /\ probe.match = p.match
<1> DEFINE decr == DecrTo(p, rejected, hint)
           next == IF p.state = "Replicate" THEN p.match + 1
                   ELSE Max({Min({rejected, hint + 1}), p.match + 1})
<1>1. p \in Progress
  BY DEF ProgressOK
<1>2. /\ p.match \in Nat /\ p.next \in Nat /\ p.next # 0 /\ p.paused \in BOOLEAN
      /\ p.sentCommit \in Nat /\ p.pending \in Nat /\ l.last \in Nat
  BY <1>1, ProgressTypes, LogTypes
<1>3. next \in Nat \ {0} /\ p.match < next /\ next =< l.last + 1 /\ next - 1 \in Nat
  <2>1. p.match < p.next /\ p.next =< l.last + 1
    BY DEF ProgressOK
  <2>2. CASE p.state = "Replicate"
    BY <1>2, <2>1, <2>2
  <2>3. CASE p.state # "Replicate"
    <3> DEFINE b == Min({rejected, hint + 1})
    <3>1. b \in Nat /\ b =< rejected
      BY MinPair
    <3> HIDE DEF b
    <3>2. Max({b, p.match + 1}) = IF b >= p.match + 1 THEN b ELSE p.match + 1
      BY <1>2, <3>1, MaxPair
    <3>3. next = Max({b, p.match + 1})
      BY <2>3 DEF b
    <3>4. p.next - 1 = rejected
      BY <2>3 DEF RejectionIsCurrent
    <3> HIDE DEF next
    <3> QED
      BY <1>2, <2>1, <3>1, <3>2, <3>3, <3>4
  <2> QED
    BY <2>2, <2>3
<1>4. decr = [p EXCEPT !.next = next, !.sentCommit = Min({p.sentCommit, next - 1}),
                       !.paused = IF p.state = "Replicate" THEN p.paused ELSE FALSE]
  BY DEF DecrTo
<1> HIDE DEF next
<1>5. Min({p.sentCommit, next - 1}) \in Nat
  BY <1>2, <1>3, MinPair
<1> HIDE DEF decr
<1>6. /\ decr \in Progress /\ decr.state = p.state /\ decr.match = p.match /\ decr.next = next
      /\ decr.inflights = p.inflights /\ decr.pending = p.pending
  BY <1>1, <1>2, <1>3, <1>4, <1>5 DEF Progress
<1>7. p.pending =< l.last
  BY DEF ProgressOK
<1>8. CASE p.state = "Replicate"
  <2>1. ProgressOK(l, BecomeProbe(decr)) /\ BecomeProbe(decr).match = p.match
    BY <1>3, <1>6, <1>7, BecomeProbeOK
  <2> QED
    BY <1>6, <1>8, <2>1 DEF decr
<1>9. CASE p.state # "Replicate"
  <2>1. p.inflights = <<>> /\ (p.state # "Snapshot" => p.pending = 0)
    BY <1>9 DEF ProgressOK, Window
  <2>2. Window(decr)
    BY <1>6, <1>9, <2>1, EmptyWindow
  <2>3. ProgressOK(l, decr)
    BY <1>3, <1>6, <1>7, <2>1, <2>2 DEF ProgressOK
  <2> QED
    BY <1>6, <1>9, <2>3 DEF decr
<1> QED
  BY <1>8, <1>9

\* What the leader notes of a follower it has heard
LEMMA HeardOK ==
    ASSUME NEW l, NEW p, ProgressOK(l, p), NEW active \in BOOLEAN, NEW paused \in BOOLEAN
    PROVE  /\ ProgressOK(l, [p EXCEPT !.active = active, !.paused = paused])
           /\ [p EXCEPT !.active = active, !.paused = paused].match = p.match
<1> DEFINE o == [p EXCEPT !.active = active, !.paused = paused]
<1>1. p \in Progress
  BY DEF ProgressOK
<1>2. /\ o \in Progress /\ o.state = p.state /\ o.match = p.match /\ o.next = p.next
      /\ o.inflights = p.inflights /\ o.pending = p.pending
  BY <1>1 DEF Progress
<1> HIDE DEF o
<1>3. ProgressOK(l, o) /\ o.match = p.match
  BY <1>2 DEF ProgressOK, Window
<1> QED
  BY <1>3 DEF o

LEMMA ActiveOK ==
    ASSUME NEW l, NEW p, ProgressOK(l, p), NEW active \in BOOLEAN
    PROVE  /\ ProgressOK(l, [p EXCEPT !.active = active])
           /\ [p EXCEPT !.active = active].match = p.match
<1>1. p \in Progress
  BY DEF ProgressOK
<1>2. [p EXCEPT !.active = active] = [p EXCEPT !.active = active, !.paused = p.paused]
  BY <1>1 DEF Progress
<1>3. p.paused \in BOOLEAN
  BY <1>1, ProgressTypes
<1> QED
  BY <1>2, <1>3, HeardOK

-----------------------------------------------------------------------------
(***************************************************************************)
(* maybeSendAppend: what it sends is in the log, and the window has room.  *)
(***************************************************************************)
SendsOK(l, p, out) ==
    /\ out.msg = Nothing \/ FromLeader(l, out.msg)
    /\ ProgressOK(l, out.pr) /\ out.pr.match = p.match

LEMMA SendNothingOK ==
    ASSUME NEW l, NEW p, ProgressOK(l, p)
    PROVE  SendsOK(l, p, SendNothing(p))
  BY DEF SendsOK, SendNothing, Sent

LEMMA SendSnapshotOK ==
    ASSUME NEW l, LogOK(l), NEW p, ProgressOK(l, p), p.next < l.first
    PROVE  SendsOK(l, p, SendSnapshot(l, p))
<1> DEFINE k == l.first - 1
           m == [type |-> "MsgSnap", index |-> k]
<1>1. p \in Progress
  BY DEF ProgressOK
<1>2. p.match \in Nat /\ p.next \in Nat /\ p.match < p.next
  BY <1>1, ProgressTypes DEF ProgressOK
<1>3. k \in Nat /\ p.match =< k /\ k =< l.last /\ k =< l.commit
  BY <1>2, LogTypes
<1> HIDE DEF k
<1>4. ProgressOK(l, BecomeSnapshot(p, k)) /\ BecomeSnapshot(p, k).match = p.match
  BY <1>3, BecomeSnapshotOK
<1>5. m \in SnapMsg /\ m.index =< l.commit
  BY <1>3 DEF SnapMsg
<1>6. SendSnapshot(l, p) \in {Sent(m, BecomeSnapshot(p, k)), SendNothing(p)}
  BY DEF SendSnapshot, k
<1> HIDE DEF m
<1>7. SendsOK(l, p, Sent(m, BecomeSnapshot(p, k)))
  BY <1>4, <1>5 DEF SendsOK, Sent, FromLeader
<1> QED
  BY <1>6, <1>7, SendNothingOK

LEMMA SendAppOK ==
    ASSUME NEW l, LogOK(l), NEW p, ProgressOK(l, p), NEW count \in Nat,
           p.next + count =< l.last + 1,
           count > 0 => ~Throttled(p) /\ p.state # "Snapshot"
    PROVE  SendsOK(l, p, SendApp(l, p, count))
<1> DEFINE m == [type |-> "MsgApp", index |-> p.next - 1, count |-> count, commit |-> l.commit]
           q == SentEntries(p, count)
<1>1. p \in Progress
  BY DEF ProgressOK
<1>2. p.next \in Nat /\ p.next # 0 /\ l.last \in Nat /\ l.commit \in Nat
  BY <1>1, ProgressTypes, LogTypes
<1>3. ProgressOK(l, q) /\ q.match = p.match
  BY SentEntriesOK
<1> HIDE DEF q
<1>4. /\ ProgressOK(l, [q EXCEPT !.sentCommit = l.commit])
      /\ [q EXCEPT !.sentCommit = l.commit].match = p.match
  BY <1>2, <1>3, SentCommitOK
<1>5. m \in AppMsg /\ m.index + m.count =< l.last /\ m.commit =< l.commit
  BY <1>2 DEF AppMsg
<1>6. SendApp(l, p, count) = Sent(m, [q EXCEPT !.sentCommit = l.commit])
  BY DEF SendApp, q
<1> HIDE DEF m
<1>7. /\ SendApp(l, p, count).msg = m
      /\ SendApp(l, p, count).pr = [q EXCEPT !.sentCommit = l.commit]
  BY <1>6 DEF Sent
<1>8. FromLeader(l, m)
  BY <1>5 DEF FromLeader
<1> QED
  BY <1>4, <1>7, <1>8 DEF SendsOK

LEMMA FetchedOK ==
    ASSUME NEW l, LogOK(l), NEW p, ProgressOK(l, p), NEW f
    PROVE  /\ Fetched(l, p, f) \in Nat /\ p.next + Fetched(l, p, f) =< l.last + 1
           /\ Fetched(l, p, f) > 0 => ~Throttled(p)
<1>1. p \in Progress
  BY DEF ProgressOK
<1>2. p.next \in Nat /\ p.next # 0 /\ l.last \in Nat /\ p.next =< l.last + 1
  BY <1>1, ProgressTypes, LogTypes DEF ProgressOK
<1>3. CASE Throttled(p) \/ p.next > l.last \/ FetchFails(l, p, f)
  BY <1>2, <1>3 DEF Fetched
<1>4. CASE ~(Throttled(p) \/ p.next > l.last \/ FetchFails(l, p, f))
  <2> DEFINE n == l.last - p.next + 1
  <2>1. n \in Nat /\ p.next + n = l.last + 1
    BY <1>2, <1>4
  <2> HIDE DEF n
  <2>2. Fetched(l, p, f) = Min({MaxEnts, n})
    BY <1>4 DEF Fetched, n
  <2>3. Min({MaxEnts, n}) = IF MaxEnts =< n THEN MaxEnts ELSE n
    BY <2>1, MinPair, SizeAssumption
  <2> QED
    BY <1>2, <1>4, <2>1, <2>2, <2>3, SizeAssumption
<1> QED
  BY <1>3, <1>4

\* The term and the entries are looked up in one log
LEMMA EvolvedOK ==
    ASSUME NEW l, LogOK(l), NEW p, ProgressOK(l, p), NEW sendIfEmpty \in BOOLEAN, ~IsPaused(p)
    PROVE  /\ SendsOK(l, p, Evolved(l, p, sendIfEmpty, l.first))
           /\ SendsOK(l, p, Baseline(l, p, sendIfEmpty, l.first))
<1> DEFINE n == Fetched(l, p, l.first)
<1>1. p.state # "Snapshot"
  BY DEF IsPaused
<1>2. CASE TermFails(l, p)
  <2>1. p.next < l.first
    BY <1>2 DEF TermFails
  <2>2. /\ Evolved(l, p, sendIfEmpty, l.first) = SendSnapshot(l, p)
        /\ Baseline(l, p, sendIfEmpty, l.first) = SendSnapshot(l, p)
    BY <1>2 DEF Evolved, Baseline
  <2> QED
    BY <2>1, <2>2, SendSnapshotOK
<1>3. CASE ~TermFails(l, p)
  <2>1. ~FetchFails(l, p, l.first)
    BY <1>3 DEF TermFails, FetchFails
  <2>2. n \in Nat /\ p.next + n =< l.last + 1 /\ (n > 0 => ~Throttled(p))
    BY FetchedOK
  <2> HIDE DEF n
  <2>3. SendsOK(l, p, SendApp(l, p, n)) /\ SendsOK(l, p, SendNothing(p))
    BY <1>1, <2>2, SendAppOK, SendNothingOK
  <2>4. /\ Evolved(l, p, sendIfEmpty, l.first) \in {SendApp(l, p, n), SendNothing(p)}
        /\ Baseline(l, p, sendIfEmpty, l.first) \in {SendApp(l, p, n), SendNothing(p)}
    BY <1>3, <2>1 DEF Evolved, Baseline, n
  <2> QED
    BY <2>3, <2>4
<1> QED
  BY <1>2, <1>3

LEMMA FormOK ==
    ASSUME NEW v \in Variants, NEW l, LogOK(l), NEW p, ProgressOK(l, p),
           NEW sendIfEmpty \in BOOLEAN
    PROVE  SendsOK(l, p, Form(v, l, p, sendIfEmpty, l.first))
<1> DEFINE out == Form(v, l, p, sendIfEmpty, l.first)
<1>1. SendsOK(l, p, SendNothing(p))
  BY SendNothingOK
<1>2. CASE IsPaused(p)
  <2>1. out = SendNothing(p)
    BY <1>2 DEF Form, Variants, Baseline, Best, Rerun, Noted
  <2> QED
    BY <1>1, <2>1
<1>3. CASE ~IsPaused(p)
  <2>1. out \in {SendNothing(p), Evolved(l, p, sendIfEmpty, l.first),
                 Baseline(l, p, sendIfEmpty, l.first)}
    BY <1>3 DEF Form, Variants, Best, Rerun, Noted
  <2> QED
    BY <1>1, <1>3, <2>1, EvolvedOK
<1> QED
  BY <1>2, <1>3

-----------------------------------------------------------------------------
(***************************************************************************)
(* The calls of the leader.                                                *)
(***************************************************************************)
LEMMA QuietOK ==
    ASSUME NEW l, LogOK(l), NEW p, ProgressOK(l, p),
           NEW b, b.last = l.last, b.commit =< l.commit
    PROVE  Quiet(l, p) \in Outcomes(b, p.match)
<1>1. l \in Log /\ p \in Progress
  BY DEF LogOK, ProgressOK
<1>2. /\ Quiet(l, p) \in States /\ Quiet(l, p).ld = l /\ Quiet(l, p).pr = p
      /\ Quiet(l, p).msgs = {}
  BY <1>1 DEF Quiet, States
<1> QED
  BY <1>2 DEF Outcomes

LEMMA CallOK ==
    ASSUME variant \in Variants, NEW b, NEW k, NEW s \in Outcomes(b, k),
           NEW sendIfEmpty \in BOOLEAN
    PROVE  Call(s, sendIfEmpty) \in Outcomes(b, k)
<1> DEFINE out == Form(variant, s.ld, s.pr, sendIfEmpty, s.ld.first)
           t == Call(s, sendIfEmpty)
<1>1. /\ s \in States /\ LogOK(s.ld) /\ s.ld.last = b.last /\ s.ld.commit >= b.commit
      /\ ProgressOK(s.ld, s.pr) /\ s.pr.match = k
      /\ \A m \in s.msgs : FromLeader(s.ld, m)
  BY DEF Outcomes
<1>2. SendsOK(s.ld, s.pr, out)
  BY <1>1, FormOK
<1> DEFINE new == {out.msg} \ {Nothing}
<1>3. t = [s EXCEPT !.msgs = s.msgs \cup new, !.pr = out.pr]
  BY DEF Call
<1> HIDE DEF out, t
<1>4. /\ \A m \in new : FromLeader(s.ld, m)
      /\ ProgressOK(s.ld, out.pr) /\ out.pr.match = k
  BY <1>1, <1>2 DEF SendsOK
<1>5. new \subseteq AppMsg \cup SnapMsg /\ out.pr \in Progress
  BY <1>4 DEF FromLeader, ProgressOK
<1> HIDE DEF new
<1>6. t \in States /\ t.ld = s.ld /\ t.pr = out.pr /\ t.msgs = s.msgs \cup new
  BY <1>1, <1>3, <1>5 DEF States
<1>7. t \in Outcomes(b, k)
  BY <1>1, <1>4, <1>6 DEF Outcomes
<1> QED
  BY <1>7 DEF t

LEMMA SendAppendOK ==
    ASSUME variant \in Variants, NEW l, LogOK(l), NEW p, ProgressOK(l, p),
           NEW b, b.last = l.last, b.commit =< l.commit
    PROVE  SendAppend(l, p) \in Outcomes(b, p.match)
  BY QuietOK, CallOK DEF SendAppend

LEMMA CommitAndSendOK ==
    ASSUME variant \in Variants, NEW l, LogOK(l), NEW p, ProgressOK(l, p)
    PROVE  CommitAndSend(l, p) \in Outcomes(l, p.match)
<1>1. p \in Progress
  BY DEF ProgressOK
<1>2. /\ p.match \in Nat /\ l.commit \in Nat /\ l.last \in Nat /\ l.first \in Nat
      /\ p.match =< l.last /\ p.next \in Nat
  BY <1>1, ProgressTypes, LogTypes DEF ProgressOK
<1>3. CASE p.match > l.commit /\ p.match >= Own
  <2> DEFINE n == [l EXCEPT !.commit = p.match]
  <2>1. l \in Log
    BY DEF LogOK
  <2>2. n \in Log /\ n.first = l.first /\ n.last = l.last /\ n.commit = p.match
    BY <1>2, <2>1 DEF Log
  <2>3. CommitAndSend(l, p) = SendAppend(n, p)
    BY <1>3 DEF CommitAndSend
  <2> HIDE DEF n
  <2>4. LogOK(n) /\ l.commit =< n.commit
    BY <1>2, <1>3, <2>2, LogTypes DEF LogOK
  <2>5. ProgressOK(n, p)
    BY <2>2 DEF ProgressOK
  <2> QED
    BY <2>2, <2>3, <2>4, <2>5, SendAppendOK
<1>4. CASE ~(p.match > l.commit /\ p.match >= Own)
  <2>1. CommitAndSend(l, p) \in {SendAppend(l, p), Quiet(l, p)}
    BY <1>4 DEF CommitAndSend
  <2> QED
    BY <1>2, <2>1, SendAppendOK, QuietOK
<1> QED
  BY <1>3, <1>4

\* MsgAppResp, MsgHeartbeatResp
LEMMA StepAckOK ==
    ASSUME variant \in Variants, NEW l, LogOK(l), NEW p, ProgressOK(l, p),
           NEW k \in Nat, k =< l.last
    PROVE  \A s \in StepAck(l, p, k) : \E j \in {p.match, k} : s \in Outcomes(l, j)
<1>1. CASE k > p.match \/ (k = p.match /\ p.state = "Probe")
  <2> DEFINE next == Advanced(l, MaybeUpdate(p, k), k)
  <2>1. ProgressOK(l, next) /\ next.match = k
    BY <1>1, AdvancedOK
  <2>2. StepAck(l, p, k) = SendRest({CommitAndSend(l, n) : n \in {next}})
    BY <1>1 DEF StepAck
  <2> HIDE DEF next
  <2>3. CommitAndSend(l, next) \in Outcomes(l, k)
    BY <2>1, CommitAndSendOK
  <2>4. {CommitAndSend(l, n) : n \in {next}} \subseteq Outcomes(l, k)
    BY <2>3
  <2>5. \A s \in Outcomes(l, k) : Call(s, FALSE) \in Outcomes(l, k)
    BY CallOK
  <2>6. StepAck(l, p, k) \subseteq Outcomes(l, k)
    BY <2>2, <2>4, <2>5, RestClosed
  <2> QED
    BY <2>6
<1>2. CASE ~(k > p.match \/ (k = p.match /\ p.state = "Probe"))
  <2>1. StepAck(l, p, k) = {Quiet(l, p)}
    BY <1>2 DEF StepAck
  <2>2. Quiet(l, p) \in Outcomes(l, p.match)
    BY LogTypes, QuietOK
  <2> QED
    BY <2>1, <2>2
<1> QED
  BY <1>1, <1>2

LEMMA StepRejectOK ==
    ASSUME variant \in Variants, NEW l, LogOK(l), NEW p, ProgressOK(l, p), NEW m \in RejectMsg
    PROVE  StepReject(l, p, m) \in Outcomes(l, p.match)
<1> DEFINE decr == DecrTo(p, m.index, m.hint)
           probe == IF decr.state = "Replicate" THEN BecomeProbe(decr) ELSE decr
<1>1. m.index \in Nat /\ m.hint \in Nat /\ l.commit =< l.commit
  BY LogTypes DEF RejectMsg
<1>2. CASE RejectionIsCurrent(p, m.index)
  <2>1. ProgressOK(l, probe) /\ probe.match = p.match
    BY <1>1, <1>2, ProbesOK
  <2>2. StepReject(l, p, m) = SendAppend(l, probe)
    BY <1>2 DEF StepReject
  <2> HIDE DEF probe
  <2> QED
    BY <1>1, <2>1, <2>2, SendAppendOK
<1>3. CASE ~RejectionIsCurrent(p, m.index)
  BY <1>1, <1>3, QuietOK DEF StepReject
<1> QED
  BY <1>2, <1>3

LEMMA StepHeartbeatRespOK ==
    ASSUME variant \in Variants, NEW l, LogOK(l), NEW p, ProgressOK(l, p)
    PROVE  StepHeartbeatResp(l, p) \in Outcomes(l, p.match)
<1> DEFINE heard == [p EXCEPT !.active = TRUE, !.paused = FALSE]
<1>1. ProgressOK(l, heard) /\ heard.match = p.match /\ l.commit =< l.commit
  <2>1. ProgressOK(l, heard) /\ heard.match = p.match
    BY HeardOK
  <2>2. l.commit =< l.commit
    BY LogTypes
  <2> QED
    BY <2>1, <2>2
<1>2. StepHeartbeatResp(l, p) \in {SendAppend(l, heard), Quiet(l, heard)}
  BY DEF StepHeartbeatResp
<1> HIDE DEF heard
<1> QED
  BY <1>1, <1>2, SendAppendOK, QuietOK

\* Only maybeCommit changes the log
LEMMA SameLog ==
    ASSUME NEW l, NEW p
    PROVE  /\ SendAppend(l, p).ld = l /\ Quiet(l, p).ld = l
           /\ StepHeartbeatResp(l, p).ld = l /\ \A m : StepReject(l, p, m).ld = l
<1>1. \A q : Quiet(l, q).ld = l
  BY DEF Quiet
<1>2. \A q : SendAppend(l, q).ld = l
  BY DEF SendAppend, Call, Quiet
<1>3. StepHeartbeatResp(l, p).ld = l
  BY <1>1, <1>2 DEF StepHeartbeatResp
<1>4. \A m : StepReject(l, p, m).ld = l
  BY <1>1, <1>2 DEF StepReject
<1> QED
  BY <1>1, <1>2, <1>3, <1>4

-----------------------------------------------------------------------------
(***************************************************************************)
(* The steps.                                                              *)
(***************************************************************************)
LEMMA FlowTypes ==
    ASSUME FlowInv
    PROVE  /\ ld.first \in Nat /\ ld.last \in Nat /\ ld.commit \in Nat /\ ld.commit =< ld.last
           /\ Own =< ld.last /\ ld.first =< ld.commit + 1 /\ ld \in Log
           /\ pr \in Progress /\ pr.match \in Nat /\ pr.next \in Nat
           /\ fw \in [last : Nat, commit : Nat] /\ fw.last \in Nat /\ fw.commit \in Nat
           /\ pr.match =< fw.last /\ fw.last =< ld.last
           /\ fw.commit =< fw.last /\ fw.commit =< ld.commit
<1>1. /\ ld.first \in Nat /\ ld.last \in Nat /\ ld.commit \in Nat /\ ld.commit =< ld.last
      /\ Own =< ld.last /\ ld.first =< ld.commit + 1 /\ ld \in Log
  BY LogTypes DEF FlowInv
<1>2. pr \in Progress
  BY DEF FlowInv, ProgressOK
<1>3. pr.match \in Nat /\ pr.next \in Nat
  BY <1>2, ProgressTypes
<1>4. /\ fw \in [last : Nat, commit : Nat]
      /\ pr.match =< fw.last /\ fw.last =< ld.last
      /\ fw.commit =< fw.last /\ fw.commit =< ld.commit
  BY DEF FlowInv, FollowerOK
<1>5. fw.last \in Nat /\ fw.commit \in Nat
  BY <1>4
<1> QED
  BY <1>1, <1>2, <1>3, <1>4, <1>5

\* Messages stay true when the logs grow
LEMMA MessagesStay ==
    ASSUME FlowInv, NEW l, l.last \in Nat, l.commit \in Nat, ld.last =< l.last,
           ld.commit =< l.commit, NEW k \in Nat, fw.last =< k
    PROVE  \A m \in wire : FromLeader(l, m) \/ FromFollower(k, m)
<1> SUFFICES ASSUME NEW m \in wire PROVE FromLeader(l, m) \/ FromFollower(k, m)
  OBVIOUS
<1>1. ld.last \in Nat /\ ld.commit \in Nat /\ fw.last \in Nat
  BY FlowTypes
<1>2. CASE m \in AppMsg /\ m.index + m.count =< ld.last /\ m.commit =< ld.commit
  <2>1. m.index \in Nat /\ m.count \in Nat /\ m.commit \in Nat
    BY <1>2 DEF AppMsg
  <2> QED
    BY <1>1, <1>2, <2>1 DEF FromLeader
<1>3. CASE m \in SnapMsg /\ m.index =< ld.commit
  <2>1. m.index \in Nat
    BY <1>3 DEF SnapMsg
  <2> QED
    BY <1>1, <1>3, <2>1 DEF FromLeader
<1>4. CASE m \in AckMsg /\ m.index =< fw.last
  <2>1. m.index \in Nat
    BY <1>4 DEF AckMsg
  <2> QED
    BY <1>1, <1>4, <2>1 DEF FromFollower
<1>5. CASE m \in RejectMsg
  BY <1>5 DEF FromFollower
<1> QED
  BY <1>2, <1>3, <1>4, <1>5 DEF FlowInv, FromLeader, FromFollower

\* The leader calls maybeSendAppend
LEMMA LeaderCalls ==
    ASSUME FlowInv, NEW l, NEW k \in Nat, k =< fw.last, NEW s \in Outcomes(l, k),
           ld.last =< l.last, ld.commit =< l.commit, l.last \in Nat, l.commit \in Nat,
           ld' = s.ld, pr' = s.pr, wire' \subseteq wire \cup s.msgs,
           fw' = fw, variant' = variant, faults' \in 0..MaxFaults
    PROVE  FlowInv'
<1>1. /\ LogOK(ld') /\ ld'.last = l.last /\ ld'.commit >= l.commit
      /\ ProgressOK(ld', pr') /\ pr'.match = k
      /\ \A m \in s.msgs : FromLeader(ld', m)
  BY DEF Outcomes
<1>2. ld'.last \in Nat /\ ld'.commit \in Nat
  BY <1>1, LogTypes
<1>3. /\ ld.commit \in Nat /\ ld.last \in Nat /\ fw.last \in Nat /\ fw.commit \in Nat
      /\ fw \in [last : Nat, commit : Nat] /\ fw.last =< ld.last
      /\ fw.commit =< fw.last /\ fw.commit =< ld.commit
  BY FlowTypes
<1>4. ld.last =< ld'.last /\ ld.commit =< ld'.commit
  BY <1>1, <1>2, <1>3
<1>5. \A m \in wire' : FromLeader(ld', m) \/ FromFollower(fw.last, m)
  <2>1. \A m \in wire : FromLeader(ld', m) \/ FromFollower(fw.last, m)
    BY <1>2, <1>3, <1>4, MessagesStay
  <2> QED
    BY <1>1, <2>1
<1>6. FollowerOK'
  BY <1>1, <1>2, <1>3, <1>4 DEF FollowerOK
<1>7. variant \in Variants
  BY DEF FlowInv
<1> QED
  BY <1>1, <1>5, <1>6, <1>7 DEF FlowInv

LEMMA ProposeFlow ==
    ASSUME FlowInv, Propose
    PROVE  FlowInv'
<1> DEFINE l == [ld EXCEPT !.last = ld.last + 1]
           s == SendAppend(l, pr)
<1>1. /\ ld' = l /\ pr' = SendAppend(ld', pr).pr /\ wire' = wire \cup SendAppend(ld', pr).msgs
      /\ fw' = fw /\ variant' = variant /\ faults' = faults
  BY DEF Propose, Emit
<1>2. /\ ld \in Log /\ ld.last \in Nat /\ ld.commit \in Nat /\ ld.first \in Nat
      /\ Own =< ld.last /\ ld.commit =< ld.last /\ ld.first =< ld.commit + 1
      /\ pr.match \in Nat /\ pr.match =< fw.last
  BY FlowTypes
<1>3. l \in Log /\ l.first = ld.first /\ l.last = ld.last + 1 /\ l.commit = ld.commit
  BY <1>2 DEF Log
<1> HIDE DEF l
<1>4. LogOK(l)
  BY <1>2, <1>3, SizeAssumption DEF LogOK
<1>5. ProgressOK(l, pr)
  <2>1. pr.pending \in Nat /\ pr.next \in Nat
    BY FlowTypes, ProgressTypes
  <2> QED
    BY <1>2, <1>3, <2>1 DEF FlowInv, ProgressOK
<1>6. variant \in Variants /\ faults \in 0..MaxFaults
  BY DEF FlowInv
<1>7. s \in Outcomes(l, pr.match) /\ s.ld = l
  BY <1>2, <1>3, <1>4, <1>5, <1>6, SendAppendOK, SameLog
<1> HIDE DEF s
<1>8. pr' = s.pr /\ wire' = wire \cup s.msgs /\ ld' = s.ld
  BY <1>1, <1>7 DEF s
<1> QED
  BY <1>1, <1>2, <1>3, <1>6, <1>7, <1>8, LeaderCalls

LEMMA OthersCommitFlow ==
    ASSUME FlowInv, NEW k \in Own..ld.last, OthersCommit(k)
    PROVE  FlowInv'
<1> DEFINE l == [ld EXCEPT !.commit = k]
           s == SendAppend(l, pr)
<1>1. /\ ld' = l /\ pr' = SendAppend(ld', pr).pr /\ wire' = wire \cup SendAppend(ld', pr).msgs
      /\ fw' = fw /\ variant' = variant /\ faults' = faults /\ k > ld.commit
  BY DEF OthersCommit, Emit
<1>2. /\ ld \in Log /\ ld.last \in Nat /\ ld.commit \in Nat /\ ld.first \in Nat
      /\ Own =< ld.last /\ ld.commit =< ld.last /\ ld.first =< ld.commit + 1
      /\ pr.match \in Nat /\ pr.match =< fw.last
  BY FlowTypes
<1>3. l \in Log /\ l.first = ld.first /\ l.last = ld.last /\ l.commit = k /\ k \in Nat
  BY <1>2, SizeAssumption DEF Log
<1> HIDE DEF l
<1>4. LogOK(l)
  BY <1>1, <1>2, <1>3 DEF LogOK
<1>5. ProgressOK(l, pr)
  BY <1>3 DEF FlowInv, ProgressOK
<1>6. variant \in Variants /\ faults \in 0..MaxFaults
  BY DEF FlowInv
<1>7. s \in Outcomes(l, pr.match) /\ s.ld = l
  BY <1>2, <1>3, <1>4, <1>5, <1>6, SendAppendOK, SameLog
<1> HIDE DEF s
<1>8. pr' = s.pr /\ wire' = wire \cup s.msgs /\ ld' = s.ld
  BY <1>1, <1>7 DEF s
<1> QED
  BY <1>1, <1>2, <1>3, <1>6, <1>7, <1>8, LeaderCalls

\* What does not touch the messages
LEMMA LocalFlow ==
    ASSUME FlowInv, LogOK(ld'), ld'.last = ld.last, ld'.commit = ld.commit,
           ProgressOK(ld', pr'), pr'.match = pr.match,
           fw' \in [last : Nat, commit : Nat], fw'.last = fw.last,
           fw'.commit =< fw.last, fw'.commit =< ld.commit,
           wire' \subseteq wire, variant' = variant, faults' \in 0..MaxFaults
    PROVE  FlowInv'
<1>1. \A m \in wire' : FromLeader(ld', m) \/ FromFollower(fw'.last, m)
  <2>1. ld'.last \in Nat /\ ld'.commit \in Nat /\ fw'.last \in Nat
    BY LogTypes
  <2>2. ld.last =< ld'.last /\ ld.commit =< ld'.commit /\ fw.last =< fw'.last
    BY <2>1
  <2> QED
    BY <2>1, <2>2, MessagesStay
<1>2. FollowerOK'
  BY FlowTypes DEF FollowerOK
<1> QED
  BY <1>1, <1>2 DEF FlowInv

LEMMA CompactFlow ==
    ASSUME FlowInv, NEW k \in ld.first..ld.commit, NEW ready \in BOOLEAN, Compact(k, ready)
    PROVE  FlowInv'
<1>1. /\ ld' = [ld EXCEPT !.first = k + 1, !.ready = ready]
      /\ pr' = pr /\ fw' = fw /\ wire' = wire /\ variant' = variant /\ faults' = faults
  BY DEF Compact
<1>2. /\ ld \in Log /\ ld.first \in Nat /\ ld.commit \in Nat /\ ld.last \in Nat
      /\ Own =< ld.last /\ ld.commit =< ld.last
  BY FlowTypes
<1>3. k \in Nat /\ k =< ld.commit
  BY <1>2
<1>4. /\ ld' \in Log /\ ld'.first = k + 1 /\ ld'.last = ld.last /\ ld'.commit = ld.commit
  <2>1. k + 1 \in Nat \ {0}
    BY <1>3
  <2>2. ld' \in Log
    BY <1>1, <1>2, <2>1 DEF Log
  <2> QED
    BY <1>1, <1>2, <2>2 DEF Log
<1>5. LogOK(ld')
  BY <1>2, <1>3, <1>4 DEF LogOK
<1>6. ProgressOK(ld', pr') /\ faults' \in 0..MaxFaults
  BY <1>1, <1>4 DEF FlowInv, ProgressOK
<1> QED
  BY <1>1, <1>4, <1>5, <1>6, FlowTypes, LocalFlow

LEMMA SnapshotReadyFlow ==
    ASSUME FlowInv, SnapshotReady
    PROVE  FlowInv'
<1>1. /\ ld' = [ld EXCEPT !.ready = TRUE]
      /\ pr' = pr /\ fw' = fw /\ wire' = wire /\ variant' = variant /\ faults' = faults
  BY DEF SnapshotReady
<1>2. ld \in Log
  BY FlowTypes
<1>3. ld' \in Log /\ ld'.first = ld.first /\ ld'.last = ld.last /\ ld'.commit = ld.commit
  BY <1>1, <1>2 DEF Log
<1>4. LogOK(ld') /\ ProgressOK(ld', pr') /\ faults' \in 0..MaxFaults
  BY <1>1, <1>3 DEF FlowInv, ProgressOK, LogOK
<1> QED
  BY <1>1, <1>3, <1>4, FlowTypes, LocalFlow

LEMMA BeatFlow ==
    ASSUME FlowInv, Beat
    PROVE  FlowInv'
<1> DEFINE commit == Min({pr.match, ld.commit})
           high == Max({fw.commit, commit})
<1>1. /\ ld.commit \in Nat /\ pr.match \in Nat /\ fw.last \in Nat /\ fw.commit \in Nat
      /\ fw \in [last : Nat, commit : Nat] /\ pr.match =< fw.last
      /\ fw.commit =< fw.last /\ fw.commit =< ld.commit
  BY FlowTypes
<1>2. commit \in Nat /\ commit =< pr.match /\ commit =< ld.commit
  BY <1>1, MinPair
<1>3. /\ pr' = [pr EXCEPT !.sentCommit = commit] /\ fw' = [fw EXCEPT !.commit = high]
      /\ ld' = ld /\ wire' = wire /\ variant' = variant /\ faults' = faults
  BY DEF Beat
<1> HIDE DEF commit
<1>4. high = IF fw.commit >= commit THEN fw.commit ELSE commit
  BY <1>1, <1>2, MaxPair
<1> HIDE DEF high
<1>5. high \in Nat /\ high =< fw.last /\ high =< ld.commit
  BY <1>1, <1>2, <1>4
<1>6. fw' \in [last : Nat, commit : Nat] /\ fw'.last = fw.last /\ fw'.commit = high
  BY <1>1, <1>3, <1>5
<1>7. ProgressOK(ld, pr') /\ pr'.match = pr.match
  BY <1>2, <1>3, SentCommitOK DEF FlowInv
<1>8. LogOK(ld) /\ faults \in 0..MaxFaults
  BY DEF FlowInv
<1> QED
  BY <1>3, <1>5, <1>6, <1>7, <1>8, LocalFlow

LEMMA HeartbeatRespFlow ==
    ASSUME FlowInv, HeartbeatResp
    PROVE  FlowInv'
<1> DEFINE s == StepHeartbeatResp(ld, pr)
<1>1. /\ pr' = s.pr /\ wire' = wire \cup s.msgs
      /\ ld' = ld /\ fw' = fw /\ variant' = variant /\ faults' = faults
  BY DEF HeartbeatResp, Emit
<1>2. s \in Outcomes(ld, pr.match) /\ s.ld = ld
  BY StepHeartbeatRespOK, SameLog DEF FlowInv
<1> HIDE DEF s
<1>3. faults \in 0..MaxFaults
  BY DEF FlowInv
<1>4. ld.last =< ld.last /\ ld.commit =< ld.commit
  BY FlowTypes
<1> QED
  BY <1>1, <1>2, <1>3, <1>4, FlowTypes, LeaderCalls

LEMMA CheckQuorumFlow ==
    ASSUME FlowInv, CheckQuorum
    PROVE  FlowInv'
<1>1. /\ pr' = [pr EXCEPT !.active = FALSE]
      /\ ld' = ld /\ fw' = fw /\ wire' = wire /\ variant' = variant /\ faults' = faults
  BY DEF CheckQuorum
<1>2. ProgressOK(ld, pr') /\ pr'.match = pr.match
  BY <1>1, ActiveOK DEF FlowInv
<1>3. LogOK(ld) /\ faults \in 0..MaxFaults
  BY DEF FlowInv
<1> QED
  BY <1>1, <1>2, <1>3, FlowTypes, LocalFlow

LEMMA ReportUnreachableFlow ==
    ASSUME FlowInv, ReportUnreachable
    PROVE  FlowInv'
<1>1. /\ pr' = BecomeProbe(pr) /\ faults < MaxFaults /\ faults' = faults + 1
      /\ ld' = ld /\ fw' = fw /\ wire' = wire /\ variant' = variant
  BY DEF ReportUnreachable
<1>2. LogOK(ld) /\ faults \in 0..MaxFaults /\ ProgressOK(ld, pr)
  BY DEF FlowInv
<1>3. ProgressOK(ld, pr') /\ pr'.match = pr.match
  BY <1>1, <1>2, BecomeProbeOK DEF ProgressOK
<1>4. faults' \in 0..MaxFaults
  BY <1>1, <1>2, SizeAssumption
<1> QED
  BY <1>1, <1>2, <1>3, <1>4, FlowTypes, LocalFlow

LEMMA ReportSnapshotFlow ==
    ASSUME FlowInv, NEW failed \in BOOLEAN, ReportSnapshot(failed)
    PROVE  FlowInv'
<1> DEFINE pending == IF failed THEN 0 ELSE pr.pending
           p == [pr EXCEPT !.pending = pending]
           q == BecomeProbe(p)
<1>1. /\ pr' = [q EXCEPT !.paused = TRUE] /\ ld' = ld /\ fw' = fw /\ wire' = wire
      /\ variant' = variant /\ faults' = faults
  BY DEF ReportSnapshot
<1>2. LogOK(ld) /\ faults \in 0..MaxFaults /\ ProgressOK(ld, pr) /\ pr \in Progress
  BY DEF FlowInv, ProgressOK
<1>3. pending \in Nat /\ pending =< ld.last
  BY <1>2, ProgressTypes, FlowTypes DEF ProgressOK
<1> HIDE DEF pending
<1>4. p \in Progress /\ p.match = pr.match /\ p.next = pr.next /\ p.pending = pending
  BY <1>2, <1>3 DEF Progress
<1> HIDE DEF p
<1>5. ProgressOK(ld, q) /\ q.match = pr.match
  BY <1>2, <1>3, <1>4, BecomeProbeOK DEF ProgressOK
<1> HIDE DEF q
<1>6. q \in Progress
  BY <1>5 DEF ProgressOK
<1>7. pr' = [q EXCEPT !.active = q.active, !.paused = TRUE] /\ q.active \in BOOLEAN
  BY <1>1, <1>6 DEF Progress
<1>8. ProgressOK(ld, pr') /\ pr'.match = pr.match
  BY <1>5, <1>7, HeardOK
<1> QED
  BY <1>1, <1>2, <1>8, FlowTypes, LocalFlow

-----------------------------------------------------------------------------
(***************************************************************************)
(* A message arrives.                                                      *)
(***************************************************************************)
LEMMA AnsweredOK ==
    ASSUME FlowInv, NEW m, NEW new, Answered(m, new)
    PROVE  wire' \subseteq wire \cup new /\ faults' \in 0..MaxFaults
<1>1. faults \in 0..MaxFaults /\ MaxFaults \in Nat
  BY SizeAssumption DEF FlowInv
<1> QED
  BY <1>1 DEF Answered

LEMMA FollowerAnswers ==
    ASSUME FlowInv, NEW m, NEW a, Answered(m, {a}), FromFollower(fw'.last, a),
           fw' \in [last : Nat, commit : Nat], fw.last =< fw'.last, fw'.last =< ld.last,
           fw'.commit =< fw'.last, fw'.commit =< ld.commit,
           ld' = ld, pr' = pr, variant' = variant
    PROVE  FlowInv'
<1>1. wire' \subseteq wire \cup {a} /\ faults' \in 0..MaxFaults
  BY AnsweredOK
<1>2. fw'.last \in Nat
  OBVIOUS
<1>3. \A x \in wire' : FromLeader(ld, x) \/ FromFollower(fw'.last, x)
  <2>1. ld.last =< ld.last /\ ld.commit =< ld.commit
    BY FlowTypes
  <2>2. \A x \in wire : FromLeader(ld, x) \/ FromFollower(fw'.last, x)
    BY <1>2, <2>1, FlowTypes, MessagesStay
  <2> QED
    BY <1>1, <2>2
<1>4. FollowerOK'
  BY <1>2, FlowTypes DEF FollowerOK
<1> QED
  BY <1>1, <1>3, <1>4 DEF FlowInv

LEMMA AckTypes ==
    ASSUME NEW k \in Nat, NEW h, k =< h
    PROVE  FromFollower(h, Ack(k))
  BY DEF FromFollower, Ack, AckMsg

LEMMA LoseFlow ==
    ASSUME FlowInv, NEW m \in wire, Lose(m)
    PROVE  FlowInv'
<1>1. /\ faults < MaxFaults /\ faults' = faults + 1 /\ wire' \subseteq wire
      /\ ld' = ld /\ fw' = fw /\ pr' = pr /\ variant' = variant
  BY DEF Lose
<1>2. LogOK(ld) /\ faults \in 0..MaxFaults /\ ProgressOK(ld, pr)
  BY DEF FlowInv
<1>3. faults' \in 0..MaxFaults
  BY <1>1, <1>2, SizeAssumption
<1> QED
  BY <1>1, <1>2, <1>3, FlowTypes, LocalFlow

\* handleAppendEntries
LEMMA ReceiveAppFlow ==
    ASSUME FlowInv, NEW m \in wire, ReceiveApp(m)
    PROVE  FlowInv'
<1> DEFINE last == m.index + m.count
<1>1. /\ ld' = ld /\ pr' = pr /\ variant' = variant
  BY DEF ReceiveApp
<1>2. /\ m.index \in Nat /\ m.count \in Nat /\ m.commit \in Nat
      /\ last =< ld.last /\ m.commit =< ld.commit
  <2>1. m.type = "MsgApp"
    BY DEF ReceiveApp
  <2>2. m \in AppMsg /\ m.index + m.count =< ld.last /\ m.commit =< ld.commit
    BY <2>1 DEF FlowInv, FromLeader, FromFollower, SnapMsg, AckMsg, RejectMsg
  <2> QED
    BY <2>2 DEF AppMsg
<1>3. /\ fw \in [last : Nat, commit : Nat] /\ fw.last \in Nat /\ fw.commit \in Nat
      /\ fw.last =< ld.last /\ fw.commit =< fw.last /\ fw.commit =< ld.commit
      /\ ld.last \in Nat /\ ld.commit \in Nat
  BY FlowTypes
<1>4. last \in Nat
  BY <1>2
<1> HIDE DEF last
<1>5. CASE m.index < fw.commit /\ fw' = fw /\ Answered(m, {Ack(fw.commit)})
  <2>1. FromFollower(fw'.last, Ack(fw.commit))
    BY <1>3, <1>5, AckTypes
  <2> QED
    BY <1>1, <1>3, <1>5, <2>1, FollowerAnswers
<1>6. CASE /\ m.index \in fw.commit..fw.last
           /\ fw' = [last |-> Max({fw.last, last}),
                     commit |-> Max({fw.commit, Min({m.commit, last})})]
           /\ Answered(m, {Ack(last)})
  <2> DEFINE low == Min({m.commit, last})
             high == Max({fw.commit, low})
             end == Max({fw.last, last})
  <2>1. low \in Nat /\ low =< m.commit /\ low =< last
    BY <1>2, <1>4, MinPair
  <2> HIDE DEF low
  <2>2. high = IF fw.commit >= low THEN fw.commit ELSE low
    BY <1>3, <2>1, MaxPair
  <2>3. end = IF fw.last >= last THEN fw.last ELSE last
    BY <1>3, <1>4, MaxPair
  <2>4. fw'.last = end /\ fw'.commit = high /\ fw' = [last |-> end, commit |-> high]
    BY <1>6 DEF low
  <2> HIDE DEF high, end
  <2>5. /\ end \in Nat /\ high \in Nat /\ fw.last =< end /\ end =< ld.last
        /\ high =< end /\ high =< ld.commit /\ last =< end
    BY <1>2, <1>3, <1>4, <2>1, <2>2, <2>3
  <2>6. fw' \in [last : Nat, commit : Nat]
    BY <2>4, <2>5
  <2>7. FromFollower(fw'.last, Ack(last))
    BY <1>4, <2>4, <2>5, AckTypes
  <2> QED
    BY <1>1, <1>6, <2>4, <2>5, <2>6, <2>7, FollowerAnswers
<1>7. CASE /\ m.index > fw.last /\ fw' = fw
           /\ Answered(m, {[type |-> "Reject", index |-> m.index, hint |-> fw.last]})
  <2>1. FromFollower(fw'.last, [type |-> "Reject", index |-> m.index, hint |-> fw.last])
    BY <1>2, <1>3 DEF FromFollower, RejectMsg
  <2> QED
    BY <1>1, <1>3, <1>7, <2>1, FollowerAnswers
<1> QED
  BY <1>5, <1>6, <1>7 DEF ReceiveApp, last

\* handleSnapshot
LEMMA ReceiveSnapFlow ==
    ASSUME FlowInv, NEW m \in wire, ReceiveSnap(m)
    PROVE  FlowInv'
<1>1. ld' = ld /\ pr' = pr /\ variant' = variant
  BY DEF ReceiveSnap
<1>2. m.index \in Nat /\ m.index =< ld.commit
  <2>1. m.type = "MsgSnap"
    BY DEF ReceiveSnap
  <2>2. m \in SnapMsg /\ m.index =< ld.commit
    BY <2>1 DEF FlowInv, FromLeader, FromFollower, AppMsg, AckMsg, RejectMsg
  <2> QED
    BY <2>2 DEF SnapMsg
<1>3. /\ fw \in [last : Nat, commit : Nat] /\ fw.last \in Nat /\ fw.commit \in Nat
      /\ fw.last =< ld.last /\ fw.commit =< fw.last /\ fw.commit =< ld.commit
      /\ ld.last \in Nat /\ ld.commit \in Nat /\ ld.commit =< ld.last
  BY FlowTypes
<1>4. CASE /\ m.index =< fw.last
           /\ fw' = [fw EXCEPT !.commit = Max({fw.commit, m.index})]
           /\ Answered(m, {Ack(fw'.commit)})
  <2> DEFINE high == Max({fw.commit, m.index})
  <2>1. high = IF fw.commit >= m.index THEN fw.commit ELSE m.index
    BY <1>2, <1>3, MaxPair
  <2> HIDE DEF high
  <2>2. high \in Nat /\ high =< fw.last /\ high =< ld.commit
    BY <1>2, <1>3, <1>4, <2>1
  <2>3. fw' \in [last : Nat, commit : Nat] /\ fw'.last = fw.last /\ fw'.commit = high
    BY <1>3, <1>4, <2>2 DEF high
  <2>4. FromFollower(fw'.last, Ack(fw'.commit))
    BY <2>2, <2>3, AckTypes
  <2>5. fw.last =< fw'.last /\ fw'.last =< ld.last /\ fw'.commit =< fw'.last
    BY <1>3, <2>2, <2>3
  <2> QED
    BY <1>1, <1>4, <2>2, <2>3, <2>4, <2>5, FollowerAnswers
<1>5. CASE /\ m.index > fw.last /\ fw' = [last |-> m.index, commit |-> m.index]
           /\ Answered(m, {Ack(m.index)})
  <2>1. /\ fw' \in [last : Nat, commit : Nat] /\ fw'.last = m.index /\ fw'.commit = m.index
    BY <1>2, <1>5
  <2>2. FromFollower(fw'.last, Ack(m.index))
    BY <1>2, <2>1, AckTypes
  <2>3. /\ fw.last =< fw'.last /\ fw'.last =< ld.last /\ fw'.commit =< fw'.last
        /\ fw'.commit =< ld.commit
    BY <1>2, <1>3, <1>5, <2>1
  <2> QED
    BY <1>1, <1>5, <2>1, <2>2, <2>3, FollowerAnswers
<1> QED
  BY <1>4, <1>5 DEF ReceiveSnap

LEMMA ReceiveAckFlow ==
    ASSUME FlowInv, NEW m \in wire, ReceiveAck(m)
    PROVE  FlowInv'
<1> DEFINE p == [pr EXCEPT !.active = TRUE]
<1>1. m.index \in Nat /\ m.index =< fw.last
  <2>1. m.type = "MsgAppResp"
    BY DEF ReceiveAck
  <2>2. m \in AckMsg /\ m.index =< fw.last
    BY <2>1 DEF FlowInv, FromLeader, FromFollower, AppMsg, SnapMsg, RejectMsg
  <2> QED
    BY <2>2 DEF AckMsg
<1>2. PICK s \in StepAck(ld, p, m.index) :
          ld' = s.ld /\ pr' = s.pr /\ Answered(m, s.msgs)
  BY DEF ReceiveAck
<1>3. fw' = fw /\ variant' = variant
  BY DEF ReceiveAck
<1>4. LogOK(ld) /\ ProgressOK(ld, p) /\ p.match = pr.match /\ variant \in Variants
  BY ActiveOK DEF FlowInv
<1> HIDE DEF p
<1>5. m.index =< ld.last
  BY <1>1, FlowTypes
<1>6. PICK k \in {p.match, m.index} : s \in Outcomes(ld, k)
  BY <1>1, <1>2, <1>4, <1>5, StepAckOK
<1>7. k \in Nat /\ k =< fw.last
  BY <1>1, <1>4, <1>6, FlowTypes
<1>8. wire' \subseteq wire \cup s.msgs /\ faults' \in 0..MaxFaults
  BY <1>2, AnsweredOK
<1>9. ld.last =< ld.last /\ ld.commit =< ld.commit /\ ld.last \in Nat /\ ld.commit \in Nat
  BY FlowTypes
<1> QED
  BY <1>2, <1>3, <1>6, <1>7, <1>8, <1>9, LeaderCalls

LEMMA ReceiveRejectFlow ==
    ASSUME FlowInv, NEW m \in wire, ReceiveReject(m)
    PROVE  FlowInv'
<1> DEFINE p == [pr EXCEPT !.active = TRUE]
           s == StepReject(ld, p, m)
<1>1. m \in RejectMsg
  <2>1. m.type = "Reject"
    BY DEF ReceiveReject
  <2> QED
    BY <2>1 DEF FlowInv, FromLeader, FromFollower, AppMsg, SnapMsg, AckMsg
<1>2. /\ pr' = s.pr /\ Answered(m, s.msgs) /\ ld' = ld /\ fw' = fw /\ variant' = variant
  BY DEF ReceiveReject
<1>3. LogOK(ld) /\ ProgressOK(ld, p) /\ p.match = pr.match /\ variant \in Variants
  BY ActiveOK DEF FlowInv
<1> HIDE DEF p
<1>4. s \in Outcomes(ld, pr.match) /\ s.ld = ld
  <2>1. s \in Outcomes(ld, pr.match)
    BY <1>1, <1>3, StepRejectOK
  <2> QED
    BY <2>1, SameLog
<1> HIDE DEF s
<1>5. wire' \subseteq wire \cup s.msgs /\ faults' \in 0..MaxFaults
  BY <1>2, AnsweredOK
<1>6. ld.last =< ld.last /\ ld.commit =< ld.commit
  BY FlowTypes
<1> QED
  BY <1>2, <1>4, <1>5, <1>6, FlowTypes, LeaderCalls

-----------------------------------------------------------------------------
\* A new leader that has sent its first entry satisfies the invariant.
LEMMA FlowInit == Init => FlowInv
<1> SUFFICES ASSUME Init PROVE FlowInv
  OBVIOUS
<1> DEFINE p == ResetProgress
           s == SendAppend(ld, p)
<1>1. /\ ld \in [first : {1}, last : {Own}, commit : 0..Own - 1, ready : {TRUE}]
      /\ variant \in Built /\ faults = 0 /\ pr = s.pr /\ wire = s.msgs
      /\ fw \in {f \in [last : 0..Own - 1, commit : 0..Own - 1] :
                    f.commit =< Min({f.last, ld.commit})}
  BY DEF Init
<1>2. variant \in Variants /\ faults \in 0..MaxFaults /\ Own \in Nat /\ Own # 0
  BY <1>1, SizeAssumption DEF Variants
<1>3. /\ ld.first = 1 /\ ld.last = Own /\ ld.commit \in 0..Own - 1 /\ ld \in Log
  <2>1. /\ ld = [first |-> ld.first, last |-> ld.last, commit |-> ld.commit, ready |-> ld.ready]
        /\ ld.first = 1 /\ ld.last = Own /\ ld.commit \in 0..Own - 1 /\ ld.ready = TRUE
    BY <1>1
  <2>2. ld.first \in Nat \ {0} /\ ld.last \in Nat /\ ld.commit \in Nat
    <3>1. ld.first \in Nat \ {0} /\ ld.last \in Nat
      BY <1>2, <2>1
    <3>2. Own - 1 \in Nat
      BY <1>2
    <3>3. \A k \in 0..Own - 1 : k \in Nat
      BY <3>2
    <3> QED
      BY <2>1, <3>1, <3>3
  <2>3. ld \in Log
    <3>1. ld.ready \in BOOLEAN
      BY <2>1, Zenon
    <3> QED
      BY <2>1, <2>2, <3>1 DEF Log
  <2> QED
    BY <2>1, <2>3
<1>4. LogOK(ld)
  BY <1>2, <1>3 DEF LogOK
<1>5. /\ p \in Progress /\ p.state = "Probe" /\ p.inflights = <<>> /\ p.match = 0
      /\ p.next = Own /\ p.pending = 0
  BY <1>2 DEF ResetProgress, Progress
<1> HIDE DEF p
<1>6. Window(p)
  BY <1>5, EmptyWindow
<1>7. ProgressOK(ld, p)
  BY <1>2, <1>3, <1>5, <1>6 DEF ProgressOK
<1>8. s \in Outcomes(ld, 0) /\ s.ld = ld
  <2>1. ld.commit =< ld.commit
    BY <1>3
  <2> QED
    BY <1>2, <1>4, <1>5, <1>7, <2>1, SendAppendOK, SameLog
<1> HIDE DEF s
<1>9. ProgressOK(ld, pr) /\ pr.match = 0 /\ \A m \in wire : FromLeader(ld, m)
  BY <1>1, <1>8 DEF Outcomes
<1>10. FollowerOK
  <2>1. /\ fw \in [last : Nat, commit : Nat] /\ fw.last \in 0..Own - 1
        /\ fw.commit \in 0..Own - 1 /\ fw.commit =< Min({fw.last, ld.commit})
    BY <1>1, <1>2
  <2>2. Min({fw.last, ld.commit}) =< fw.last /\ Min({fw.last, ld.commit}) =< ld.commit
        /\ Min({fw.last, ld.commit}) \in Nat
    BY <1>3, <2>1, MinPair
  <2> QED
    BY <1>2, <1>3, <1>9, <2>1, <2>2 DEF FollowerOK
<1> QED
  BY <1>2, <1>4, <1>9, <1>10 DEF FlowInv

LEMMA FlowStep == FlowInv /\ [Next]_vars => FlowInv'
<1> SUFFICES ASSUME FlowInv, [Next]_vars PROVE FlowInv'
  OBVIOUS
<1>1. CASE Propose
  BY <1>1, ProposeFlow
<1>2. CASE \E k \in Own..ld.last : OthersCommit(k)
  BY <1>2, OthersCommitFlow
<1>3. CASE \E k \in ld.first..ld.commit, ready \in BOOLEAN : Compact(k, ready)
  BY <1>3, CompactFlow
<1>4. CASE SnapshotReady
  BY <1>4, SnapshotReadyFlow
<1>5. CASE Beat
  BY <1>5, BeatFlow
<1>6. CASE HeartbeatResp
  BY <1>6, HeartbeatRespFlow
<1>7. CASE CheckQuorum
  BY <1>7, CheckQuorumFlow
<1>8. CASE ReportUnreachable
  BY <1>8, ReportUnreachableFlow
<1>9. CASE \E failed \in BOOLEAN : ReportSnapshot(failed)
  BY <1>9, ReportSnapshotFlow
<1>10. CASE \E m \in wire : Lose(m) \/ Receive(m)
  BY <1>10, LoseFlow, ReceiveAppFlow, ReceiveSnapFlow, ReceiveAckFlow, ReceiveRejectFlow
     DEF Receive
<1>11. CASE UNCHANGED vars
  <2>1. /\ variant' = variant /\ ld' = ld /\ pr' = pr /\ fw' = fw /\ wire' = wire
        /\ faults' = faults
    BY <1>11 DEF vars
  <2> QED
    BY <2>1 DEF FlowInv, FollowerOK
<1> QED
  BY <1>1, <1>2, <1>3, <1>4, <1>5, <1>6, <1>7, <1>8, <1>9, <1>10, <1>11 DEF Next

\* Window, progress, log and messages fit together in every state of a leadership.
THEOREM FlowInvariant == Spec => []FlowInv
  BY FlowInit, FlowStep, PTL DEF Spec

\* The window of a follower never overflows, on which Inflights.Add panics; it ends where the
\* next message begins and is empty outside replication, for windows, messages and logs of
\* any size, whatever is lost, repeated or compacted (maybeSendAppend, stepLeader).
THEOREM WindowNeverOverflows == Spec => []WindowIsKept
<1>1. FlowInv => WindowIsKept
  <2> SUFFICES ASSUME FlowInv PROVE WindowIsKept
    OBVIOUS
  <2>1. LogOK(ld) /\ ProgressOK(ld, pr) /\ FollowerOK
    BY DEF FlowInv
  <2>2. wire \subseteq AppMsg \cup SnapMsg \cup AckMsg \cup RejectMsg
    BY DEF FlowInv, FromLeader, FromFollower
  <2>3. TypeOK
    BY <2>1, <2>2 DEF FlowInv, TypeOK, LogOK, ProgressOK, FollowerOK
  <2>4. pr.match \in Nat /\ pr.next \in Nat /\ ld.last \in Nat
    BY FlowTypes
  <2>5. pr.next \in pr.match + 1 .. ld.last + 1
    BY <2>1, <2>4 DEF ProgressOK
  <2>6. /\ Len(pr.inflights) =< MaxInflight
        /\ pr.inflights # <<>> => pr.state = "Replicate" /\ Last(pr.inflights) = pr.next - 1
        /\ pr.state = "Replicate" /\ pr.next > pr.match + 1 => pr.inflights # <<>>
    BY <2>1, <2>4 DEF ProgressOK, Window, Last
  <2> QED
    BY <2>3, <2>5, <2>6 DEF WindowIsKept
<1> QED
  BY <1>1, FlowInvariant, PTL

\* What the leader counts as acknowledged, or announces as committed in a heartbeat, the
\* follower has (MaybeUpdate, sendHeartbeat, handleAppendEntries).
THEOREM FollowersHaveIt == Spec => []FollowerHasIt
<1>1. FlowInv => FollowerHasIt
  <2> SUFFICES ASSUME FlowInv PROVE FollowerHasIt
    OBVIOUS
  <2>1. /\ fw.last \in Nat /\ ld.commit \in Nat /\ fw.commit \in Nat /\ pr.match =< fw.last
        /\ fw.commit =< fw.last /\ fw.commit =< ld.commit
    BY FlowTypes
  <2>2. Min({fw.last, ld.commit}) = IF fw.last =< ld.commit THEN fw.last ELSE ld.commit
    BY <2>1, MinPair
  <2> QED
    BY <2>1, <2>2 DEF FollowerHasIt
<1> QED
  BY <1>1, FlowInvariant, PTL

=============================================================================
