# Verification of the raft optimisation harness

This directory models the program in the repository: the raft state machine
that the optimisation loop evolves, and the deterministic simulation harness
that decides whether an evolved candidate is accepted. TLC checks the models on
small instances; TLAPS proves the most important results for every value of
the constants.

## 1. Inventory

| Part | Source | State | Operations | What makes it hard |
|------|--------|-------|------------|--------------------|
| raft state machine | `harness/optimize/initial_program.go` | term, vote, log, commit, role, votes, one `Progress` per peer, two message queues | `Step` of every message, `Tick`, `hup`, `campaign`, propose, transfer | messages lost, late, repeated; restarts; logs that diverge; answers counted only once they are durable |
| evolved block | `maybeSendAppend` there, in `out/best`, in `out-rerun-*/best`, in `ARTIFACT_NOTES.md` | one `Progress`, the log bounds | decide whether to send, what to send, or to send a snapshot | the candidates must behave like the baseline on paths a benchmark never takes |
| cluster driver | `harness/dst/cluster.go` | raw nodes, storage, applied index, register | `Step`: tick, drain Ready, persist, apply, send, advance, deliver | one loop drives everything: its order is the order of every interaction |
| network | `harness/dst/network.go` | inbox per node with delivery ticks, partitions, drop rates | Send, Drain, Partition, Heal | delay, duplication, drops, a partition while messages are on the way |
| clients | `harness/dst/client.go` `kv.go` | the pending op, counters, read context, history | Tick, MaybeIssue, onWriteCommitted, onReadIndexReady, pollRead | an op that is timed out, committed twice, or answered for someone else |
| history check | `harness/dst/history.go` | recorded ops | ToOperations, Check | an op with an unknown outcome |
| oracle | `harness/dst/oracle.go` | cached role and term per node | log prefix agreement, one leader per term | reads a cache, not the node |
| scenario and main | `harness/dst/scenario.go`, `cmd/dst/main.go` | probabilities | inject faults, start ops | random choice only |
| evaluator, ablation | `harness/optimize/evaluator.py`, `ablation.py` | `raft.go` and a binary on disk, shared | stage, build, sweep, bench, restore | two evaluations share the files; a timeout is an outcome |
| raft library | not in the tree (`raft-upstream`) | raftLog, tracker, quorum, RawNode | called by all of the above | modelled from how `initial_program.go` uses it, marked external in the map |
| scripts, toy run, paper | `*.sh`, `analyze_rerun.py`, `oe-smoke/`, `paper-format/`, logs and checkpoints | files | run things on a machine, tabulate | nothing concurrent of their own; not modelled |

How the parts interact. `scenario.Drive` makes clients issue ops and breaks
links; a client calls `Propose` or `ReadIndex` on one `RawNode`. `Cluster.Step`
then ticks every node, handles every `Ready` (store the hard state and the
entries, apply what is committed, tell the clients, hand the messages to the
network, `Advance`) and delivers the network's due messages with `RawNode.Step`.
The oracle looks at the result after every tick, the history check at the end.
The evaluator builds this harness around a candidate, runs it for some seeds
and scores the candidate only if no seed reports a violation.

What makes each part correct:

- raft: at most one leader per term; votes and acknowledgements that have been
  told are stored; logs that agree on an entry's term agree up to it; what is
  committed stays; the leader has what is committed; no panic condition is met.
- evolved block: whatever the baseline sends, a candidate sends.
- cluster and clients: an op is acknowledged when its own entry is committed; a
  read returns the register of a moment between its call and its return.
- network: what it delivers was sent, and nothing from before a partition
  reaches the partitioned node after it.
- history check: a run of a correct raft is judged linearizable.
- oracle: it never accuses a correct raft, and what it looks for is what raft
  promises.
- evaluator: a score belongs to the candidate that was staged.

## 2. Plan and order

The plan had the most important behaviour first. All of it that the language
and the tools can carry is done:

1. `Raft`, `RaftElection`: the state machine under every order of messages and
   restarts; the invariant of elections, proved.
2. `DstClient`: clients, driver and history check over the promises of raft.
3. `FlowControl`: the evolved function in all its forms, with the window, probes
   and snapshots around it; the forms proved equivalent; progress.
4. `DstNetwork` over `LossyNetwork`: inboxes, delays, partitions; the network
   that `Raft` assumes as its abstraction, proved.
5. `ReadIndex` and `RaftOracle`, extensions of the state of `Raft`; `RaftTimers`
   for what depends on counting ticks; `Reconfiguration` for the configuration.
6. `ReplicatedLog`: what `Raft` implements; what `DstClient` takes for granted is
   stated of `Raft` and `ReadIndex` (section 4).

Which module is built on which:

```
Raft ── RaftElection ─┬─ MCRaft ── MCReadIndex      LossyNetwork ◁── DstNetwork
   │                  └─ RaftOracle ── MCOracle     (refined by)
   ├─ ReadIndex ──────────────┘
   └──▷ ReplicatedLog         DstClient ── MCDstClient
FlowControl   RaftTimers   Reconfiguration ── MCReconfiguration
```

What is left: learners and lease-based reads, a crash inside `Cluster.Step`, and
proofs about `RaftTimers`. Section 7 says what stays out and why.

## 3. Modules

### Raft

`node[i]` is the record of the fields of `struct raft` of node i: `term`, `vote`,
`lead`, `state`, `log` and `commit` (of `raftLog`), `granted` and `rejected` (of
`trk.Votes`), `prog` (of `trk.Progress`), `transferee`. `outbox` holds `r.msgs`
and the part of `r.msgsAfterAppend` addressed to other nodes, `self` the part
addressed to the node itself, `steps` the `stepsOnAdvance` of RawNode. `disk[i]`
is what the MemoryStorage of node i holds. `msgs` is every message ever handed
to the network. It is never emptied and a message may be delivered again at any
time, so loss, delay, reordering and duplication need no action of their own.

A method is an operator that takes the record of a node and returns it changed
(`Reset`, `BecomeFollower`, `Campaign`, `HandleAppendEntries`, ...). An action
is a call the harness can make: the timers (`Hup`, `Beat`, `CheckQuorumFails`,
`AbortTransfer`), the application (`Propose`, `TransferLeader`, `ForgetLeader`,
`ReportUnreachable`), `Ready` together with what `cluster.go` does with it,
`Advance`, `Restart`, and the delivery of a message, one action per kind.
`Ready` stores first and releases the messages then; `Advance` steps the node's
answers to itself, one at a time. A restart runs `newRaft` on the stored state.
`HasReady` leaves out that a change of the soft state alone (a leader that steps down
within its term) makes a Ready too. Such a Ready stores and sends nothing, and refreshes
the role that the oracle caches; without it a former leader stays in the cache for
longer, which can only add to what the oracle objects to, and it objects to nothing.

Abstracted. A timer may fire at any moment, and a lease that makes a node ignore
a vote request is a message that is not delivered: `RaftTimers` counts instead.
The in-flight window, snapshots and compaction are the subject of `FlowControl`,
configuration changes of `Reconfiguration`. An entry fits in a message by count
(`MaxEnts`), not by bytes. The three bootstrap entries are one.

`ReplicatedLog` is one log that only grows, of which every node has applied a prefix
that only grows. `ImplementsReplicatedLog`: the longest committed prefix of any node is
the chosen log, and the committed prefix of the disk of a node is what it has applied.

### RaftElection

The vocabulary of votes (`IsBallot`, `VoteOf`, `Holds`, `Supporters`) and the
inductive invariant `ElectionInv`.

### RaftOracle

`role[i]` is the cached `stateStr`, refreshed when a Ready is handled; the cached
term and the entries given out as committed are what the disk holds. Every step
of `OracleNext` is a step of `Raft`. `CheckLogPrefix` and
`CheckLeaderUniqueness` are the two functions of `oracle.go`.

### ReadIndex

Adds to `Raft` the requests of a leader (`reads[i]`: the queue, a counter for the
contexts and the last context every peer has acknowledged), the requests that
wait for the first commit of a term (`parked[i]`) and three ghosts: `known`, the
highest commit index any node has known so far; `asked`, what it was when a read was
asked for; and `answers`. `known` is remembered when a restart forgets it
(`RestartReads` is `Restart`, which empties the requests of the node as well): what was
committed stays committed, also where nobody knows it any more.
Heartbeats and their answers carry the number of a request (`ctx`, 0 without one).
The steps of `Raft` are taken as they are; what a step does to the requests is
added: `Otherwise` when nothing is answered, `After` when a commit releases what was
parked. The requests that wait are `Noted`, with a round of heartbeats for each
(`Rounds`); what a quorum has acknowledged is `Resolved` and forgotten.

### FlowControl

One leadership seen from one follower. `pr` is the `Progress` of that follower
with its window (`inflights`), its pause, its probe or snapshot state; `ld` the
bounds of the leader's log and whether storage has a snapshot ready; `fw` what
the follower has. The log of the follower is a prefix of the leader's, since what
diverged is repaired by `Raft`. `Baseline`, `Best`, `Rerun` and `Noted` are
`maybeSendAppend` in the repository's four forms; each gives the message it sends
and the progress it leaves. The index from which the log is available may grow
between the lookup of the term and that of the entries, since the application
compacts. The other voters appear by what they let the leader commit. `SendSnapshot`
sends a snapshot of everything before the first entry of the log; a storage may hold a
later one, which the code would send.

### RaftTimers

A step is one round of `Cluster.Step`: all nodes tick, all Readys are sent, all
inboxes drained in the order of the network (by sender, then by `msgKey`). Time-outs are drawn
by `resetRandomizedElectionTimeout`; the draw is made at the end of the round, and only
for nodes that will look at it. `fault` is what is wrong in the round: a node is
partitioned (and then does not tick, as in `Cluster.Step`), or its links lose
what it is sent (deaf) or sends (mute). Of the log only the term of the last entry is
kept. Terms count from the lowest one of any node (`Lowered`), which makes the
state space finite without a bound on terms.

### Reconfiguration

Every node has its own configuration, the one it has applied. A request and its
answer are one step between two nodes (`Vote`, `Replicate`), so what is explored
is which node knows and applies what when, not the order of messages, which is
the subject of `Raft`. Proposals are changes of the configuration (single, through a
joint configuration, leaving one) or payloads, subject to the checks and to the
quota of `stepLeader`. `Apply` hands a Ready with committed entries to the application and
tells raft, which may leave a joint configuration by itself. `stepDownOnRemoval`
is off, as in the harness. The application never asks for all voters to be removed, on
which the code panics. A change refused by the quota leaves `pendingConfIndex` past the end
of the log, as in the code: a later change is then ignored once.

### DstClient, MCDstClient

`client[c]` holds the fields of `Client` that matter: the two counters, the
pending op and the safe index. `history` is the union of the `History` slices.
`tick` is `Cluster.tick`; `phase` alternates between the two halves of the loop
of `main`. `Drive` expires ops and lets at most one client issue one
(`DriveWrite`, `DriveRead`, or `DriveOnly`); `Step` is `Cluster.Step` up to the
polling of reads.

Raft is what it promises, not how it works. `inflight` holds proposals that are
accepted and may be committed at any later time or never, two copies of each if
the network repeats messages; a time-out does not withdraw them. `log` is what is
committed, `applied[n]` how much of it node n has applied; a leader may commit an
entry without payload at any time. `asked` holds the ReadIndex requests with the
commit index of the moment they were made; an answer is any index between that
one and the present, and may come late or again. That raft keeps these promises
is shown by `Raft!ImplementsReplicatedLog` and `ReadIndex!ReadsAreCurrent`; the step
from those statements to this environment is by reading, not by a proof.
`ReadsAreFresh` is what clients make of it: the value of a read is that of the register
at an index between those of its call and of its return.

The value of a write is its number, as in `MaybeIssue`; the payload of an entry
holds the op number and the value and not the client, which the fields `client`
and `copy` record for the properties only. `Explains` is `registerModel` with
the rule of the checker for real time: an op precedes another if it returned in
an earlier tick than the other was called in.

### DstNetwork, LossyNetwork

`inbox[i]` holds the pending messages of node i with the tick they are due and
their number; `partitioned` and `curTick` as in `Network`. `Drive` is the part of
`Scenario.Drive` that cuts nodes off and connects them again, `SendQueued` and
`SendLost` are `Send`, `Deliver` the drains of one `Cluster.Step`. `sent`, `handed`
and `cut` record what the properties speak of.
`LossyNetwork` is what `Raft` assumes: a message sent is handed over any number of
times, or never.

### Proof modules

`NumberLemmas` (extrema of finite sets of numbers); `RaftProofs` (types, elections,
the leaders that the oracle sees, logs that agree), which `RaftCommitProofs` (what is
committed, the refinement, the rest of the oracle, what nodes say) extends, which
`ReadIndexProofs` (reads) extends; `FlowControlProofs`, `DstNetworkProofs`, `DstClientProofs`,
`ReconfigurationProofs`: section 6.

## 4. Runs

| Run | Question | States |
|-----|----------|--------|
| RaftBatched | can a restart make a node forget a vote it has told, or a disk go back, also if a Ready holds the effects of several calls? Is what is counted stored? | 0.4 M |
| RaftReplication | is what is committed on a quorum for good? Who raises a term, and does a campaign have a quorum behind it? Is the leadership ever handed to a node that lags? | 1.1 M |
| RaftDivergence | are diverged logs repaired, is an entry of an old term kept uncommitted, do the nodes implement one log? | 1.1 M |
| RaftStepDown | can answers to an earlier leadership corrupt a later one? Is a transfer forwarded twice? Does the oracle accuse anybody? | 1.9 M |
| RaftReads | can a read be answered with an index from before it was asked, when the leader changes or a node that knew better restarts? | 3.0 M |
| RaftTimers | do lease, pre-vote and CheckQuorum protect a leader that works, end one that does not, and let the cluster elect one in the end? | 87 k |
| FlowControl | is the window kept, do the forms of `maybeSendAppend` agree, does a follower catch up? | 0.3 M |
| Reconfiguration | is raft safe while nodes use different configurations? Does the quota leak? | 1.3 M |
| DstNetwork | what can arrive after a partition, when, and in which order? | 3.6 M |
| DstUnanswered | is what the clients observe explained, if ops that were given up or repeated are counted as such? Is a read of its own time? Does every op end? | 0.3 M |
| DstCollision | is an acknowledgement for the right write, with two writers? No: section 5 | |
| DstExclusion | is the history explained if given-up ops are left out, as `ToOperations` does? No: section 5 | |

Every property of a passing run is broken by a mutant of the code, named in
`PROJECT.json`: a guard dropped, a reset forgotten, an index off by one.

### Bounds

`Raft`. `MaxTerm` bounds campaigns, `MaxLog` proposals, `MaxRestarts` restarts;
they appear in guards only. `MaxEnts` is 1 or 2, so a message may hold part of
what is missing. `Calls` limits which timers and requests exist in a run. With
`Prompt = TRUE` every Ready is handled before the next call, which is the order
of `Cluster.Step` up to the calls of one tick; `RaftBatched` drops it. Three
nodes are the size the harness runs with and the smallest in which a quorum
excludes a node; `RaftStepDown`, about one leader and its peer, uses two. Two
terms of competition, three entries, and one restart in all (in `RaftBatched` and
`RaftReads`; the other runs have none) suffice for every
mutant to be caught, and for the classical hazards (a vote cast twice, an entry
of an old term overwritten, a late MsgApp that truncates) to be reachable.
`RaftReads` has one read (`MaxReads`), so the order of several in the queue is not explored but only
proved (`RequestsBelongToLeaders`); its restart is of the old leader or of its rival, while
the read has no answer (`RestartsMeanwhile`). In `RaftReplication` the leadership is asked for
where it starts with a leader just elected (`InitElected`, `TransfersAfterElection`), whose log then has two entries
of its term, so that an acknowledgement of the first is not one of the whole log.
`RaftDivergence` and `RaftReads` start in states that only long runs reach:
logs that diverged in terms 2 and 3 and a candidate one answer from leading; a
leader of term 5 and a follower with a tail of term 2; a leader that has
committed with one peer while the other has seen nothing of the term.

`RaftTimers`: three nodes, `ElectionTick` 3 and `HeartbeatTick` 1 (the harness
has 10 and 1; what matters is that several heartbeats fit into a time-out), one
node whose log is behind, one disturbance of up to seven rounds, longer than any
time-out. Safety was also explored with two disturbances (2.2 M states).
`FlowControl`: a window of one message of one entry, so that it is full at once,
one fault, three entries, two messages under way; the baseline and the latest
accepted form drive the leader, and all four are compared in every state.
`Reconfiguration`: three nodes that may all be removed, singly or two at once,
two terms, three entries, a quota of one. Also explored: explicit joint changes
with "leave" proposals and a quota of two (4.0 M states), a third node that joins
and replaces one of two through a joint configuration, with four entries (5.2 M)
and with three terms (3.7 M).
`DstNetwork`: two nodes, three messages, delays up to two ticks, five ticks. `DstUnanswered`: two
clients on two nodes, two ops each, a log of three entries, five ticks and a
time-out of two: enough for a write that is given up, committed while the next
is pending, committed again, and read in between. `OpTimeout` is longer than the
run in `DstCollision`. The Dst runs end with the simulation, so their deadlock check
is off; so is that of `Reconfiguration`, where logs and terms are used up.

### Fairness

`FlowControl` assumes weak fairness of what the loop of the harness repeats: the
leader's heartbeat and its answer, the delivery of a message that is under way
(one fault may lose it or deliver it again), and the reports of storage and
transport about a snapshot. Proposals, compaction, the checks of the quorum and
reports of unreachability need not happen. `RaftTimers` assumes that rounds go on, since the loop of
`main` never stops before its last tick, and that random draws are not for ever
such that two nodes wake up together (`FairDraws`, strong fairness of the rounds
that end with the nodes apart, justified by `r.intn`, a uniform random source).
Nothing is assumed of faults except that they are finitely many and end:
`MaxFaults` and `MaxLength`. `OperationsEnd` in `DstClient` is a bound in ticks, so it is
safety and needs no fairness.

### Refinement

`DstNetwork` implements `LossyNetwork` (run `DstNetwork`, and proved): the network
of the harness does nothing that `Raft` does not allow its network to do. `Raft`
implements `ReplicatedLog` (run `RaftDivergence`, and proved). The log of `DstClient` is
such a log by its definition (`Step` appends to it and lets nodes apply more), so no
refinement is claimed there.

## 5. Findings

- `DstCollision`. `kv.go` says the op number of an entry is unique per cluster;
  every client counts from one, and all clients are told of every applied entry.
  A commit therefore acknowledges the pending write of another client that has
  the same number. This alone explains failures of the linearizability check
  without any fault.
- `DstExclusion`. Leaving out ops that timed out is called conservative. A write
  that was given up, committed later and read leaves a read of a value nobody
  wrote in the history, and a correct raft is rejected.
- `RaftReads`, which passes. `LIN_CHECK_NOTES.txt` (lines 45-49) gives as the third cause
  of failed checks that a read in flight across a change of leader is answered by the
  old leader with a stale commit index, and placed earlier than the checker expects.
  One reading of it survives: the answer may come from the old leader, and may be below
  what is committed by the time it arrives. It is never below what any node
  knew to be committed when the read was asked for (`ReadsAreCurrent`, proved as
  `ReadsNeverStale`, restarts included). So the value read is that of a moment
  between call and return (`ReadsAreFresh`), where the checker may place the read:
  the third cause makes no history Illegal.

Further observations, made while modelling and not the subject of a run of their own:

- A proposal that a follower forwards may be repeated by the network and is then
  appended twice; the register may go back to an older value after a newer one
  was acknowledged. `LIN_CHECK_NOTES.txt` lists three causes of failed checks: two in the
  recording, and the change of leader above; this one is not among them.
  `ExplainedInClientOrder` counts the repetition as a write of its own.
- `stepCandidate` counts any `MsgPreVoteResp` that reaches a pre-candidate, where its
  comment says that only responses corresponding to the candidacy are handled. A
  grant for term t may be counted by a pre-candidate that wants t + 1.
  `CampaignIsBacked` states what holds all the same.
- "With maxDelay == 0 the bus behaves as a strict FIFO" (`network.go`) does not
  hold with copies, which are due one tick after the message. What holds is `InOrder`.
- A partition discards what waits for the node, but what the node sent before
  still reaches the others.
- A partitioned node does not tick in the harness, so a leader that is cut off never steps down
  while it is; only one-sided failures of links exercise CheckQuorum.

## 6. Proofs

`Raft`, for any number of nodes, terms, restarts, entries and messages:

- `TypeCorrect` (RaftProofs): `Spec => []TypeOK`. Each operator is shown to
  return a node state from one; messages are typed where they are made.
- `ElectionInvariant`, `OneLeaderPerTerm`, `VotesSurvive` (RaftProofs):
  `ElectionInv` is inductive, and gives `ElectionSafety` and `VotesAreDurable`.
- `OracleSeesOneLeader` (RaftProofs): the half of the oracle that compares
  leaders never accuses anybody. The cached role goes with the stored term: who
  was last seen to lead a term had a quorum for it.
- `LogsMatch` (RaftProofs): `LogMatching`, by the inductive `LogInv`.
- `CommitInvariant`, `CommitsStay`, `LeadersAreComplete`, `CountedIsDurable`
  (RaftCommitProofs): `CommitInv` is inductive, and gives `CommittedIsOnQuorum`,
  `LeaderCompleteness` and `MatchIsDurable`.
- `OracleNeverAccuses`: both halves of the oracle, `OracleIsQuiet`.
- `CommitsAreStored`, `DisksAdvance`: `DiskOnlyAdvances`, with the further invariant
  that no disk holds a commit index that its node has lost (`DiskLags`).
- `RaftIsReplicatedLog`: `ImplementsReplicatedLog`, the refinement.
- `SpeechInvariant`, `RaftNeverPanics`, `TransfersEnd`, `TermsHaveCandidates`,
  `TransfereesCaughtUp`, `CampaignsAreBacked` (RaftCommitProofs): `SpeechInv` is inductive,
  and gives `NoPanic`, `TransferIsForwardedOnce`, `TermsComeFromElections` and the
  action properties `TransfereeHasCaughtUp` and `CampaignIsBacked`.

`ElectionSafety` alone is not inductive: it says nothing of votes still on the
way. The invariant follows a vote from the call that casts it. A disk is behind
its node but agrees with the vote of a common term (`DiskBehind`); a vote about
to be told is held, one told is stored (`BallotsHold`); two ballots of a node for
one term are for the same candidate (`OneBallot`); a grant answers a request
(`GrantsAnswer`); what a candidate has counted was granted (`CountsAreVotes`);
who leads, or has written a MsgApp, had a quorum (`LeadersHadQuorum`). Two
quorums share a node, which cast one ballot. A step is split by action; a lemma
says for each operator that the vote of a term does not change (`Calm`) and that
new messages tell only of votes that are held (`Sound`).

`LogMatching` is not inductive either: a MsgApp on its way shows a log that its
sender may have lost, and a leader could append to a log that is behind another
of its own term. `LogInv` therefore speaks of a history: a set of logs that
holds every log in memory and on a disk, of which every MsgApp shows a part, any
two of which match, and of whose entries a leader has all that are of its term.
A follower that takes the entries of a message has the beginning of a log of the
history afterwards or keeps the log it had (`MergeIsPart`); what a leader appends
is the first entry of its term at that index, because a term is led by one node,
which had no entry of it when it was elected (`FreshTerm`). That needs a part of
its own, `StoredInv`: nobody counts a vote, its own included, before the term is
on its disk, so an elected node cannot crash and be elected to the term again.

That what is committed stays needs more than states, since an acknowledgement
outlives the log it speaks of: the node may have lost the tail to a later leader while
the answer is still on its way. `CommitInv` says that three sets explain the state.
`H` is the history of `LogInv`. `K` holds every log a leader has had,
of which those of one term extend each other (`LeadersWrote`). `A` holds
the acknowledgements (node, term, index) that were stored; one that is on its
way, waits for `Advance` or is counted in `match` is in `A`. Entry k of a log of `K` is
`Firm` if it is of the leader's own term and a quorum has acknowledged it in this
term or may still do so, because the disks of the others have not left the term
(`Choosable`). Once it is not firm it never is again, and what is committed is firm for ever.
Who acknowledged a firm entry keeps it (`AcksHold`), and grants a vote of a
later term only on a request whose log reaches it (`VotesRespect`). So the quorum that
elects a later leader shares a node with the one that makes the entry firm, and the log of
the leader reaches the entry; the last entry of that log is of a leader that wrote the firm
entry or came after it, and had it: `LeadersHave`.
Commit indexes, in memory, on disks, in MsgApp and in heartbeats, are backed by chosen
entries (`CommitsHold`). A step of raft is a change of one node in memory, a Ready or a
restart (`StepKinds`), so that the parts are not proved once per action. `RaftIsReplicatedLog` takes the longest
committed prefix of any node, which exists as the nodes are finitely many and at
least one (`NodeAssumption`), and of which every other committed prefix is a part.

The rest of raft's manners are one more invariant, `SpeechInv`, `CommitInv` with five parts.
`Apart`: nobody sends to itself, a leader alone follows itself, its own answers are of no
later term than its own, and `next` of a peer is above `match` and at most one past the log;
this with `CommitsHold` is why raft does not panic. `FollowedWereElected`: whoever is
followed, or is passed a transfer request, had a quorum in that term, and a term has one
such node; so the node that the request reaches follows itself, which only a leader does.
`TermsAreRooted`: a term above the first is shown by a message already sent, except where it
is only in the outbox of the node that campaigns; memory, disk, outbox and network are
followed one by one, since a restart forgets an outbox but not the disk that a Ready wrote with it. `BackedByGrants`:
what a pre-candidate counts are grants in the network. `TransfereesHaveIt`: who has been told to
take over has an entry of the term as long as it is in it. That it has the whole log when it is told
(`TransfereeHasCaughtUp`) follows from what a step sends (`StepHandsOver`) and from `AreCaughtUp`,
which needs `CommitInv`: an acknowledgement that was
stored (`A`) is the only witness that the peer ever had the last entry of the leader. Each operator
is shown to send only what a node in its state may say (`Polite`) and to change term,
leader and grants only for a reason (`Fair`); `CampaignIsBacked` follows from what a
step may do to a pre-candidate (`Stands`).

`FlowControl`: `VariantsAgree`: `FormsAgree` holds in every state, for every log,
window and progress. The forms are compared case by case: who is paused,
throttled or caught up sends nothing in each of them unless an empty message is wanted.
`WindowNeverOverflows` and `FollowersHaveIt` rest on `FlowInvariant`. `WindowIsKept` is not
inductive: the window is freed by acknowledgements that were sent for any earlier
progress, and an accepted message takes room that only a pause guarantees. `FlowInv` adds
that the window ends with `next - 1` and that all of it is below `next`; that there is room in it
whenever the follower is not paused; and, of every message on its way, that what it shows
is of the leader's log, and what it acknowledges of the follower's, both of which only
grow. Each operator of the tracker and each form of `maybeSendAppend` is shown to keep
these bounds. The loop of `stepLeader` that sends until nothing is left (`SendRest`) is a
recursive function: the numbers k after whose k calls the bounds hold contain 0 and with k also
k + 1, hence all numbers (`AllNumbers`, `RestClosed`).

`DstNetwork`: `NetworkTypes`, `PartitionsAreClean` and `NetworkImplementsLossy`,
for any nodes, delays, copies and ticks. Numbers of pending messages are below
`nextSeq` and no two are equal, so a cut divides what was sent before from what
is sent after; everything in an inbox was sent and is addressed to its owner,
which with the type invariant is what makes every step of the network a step
of `LossyNetwork` or a stutter. `MessagesArriveOnTime` and `DrainsAreInOrder` add
(`OrderInv`) that what waits is due later than all that was drained, so that all a Drain returns
is due in its own tick; that no number is given twice, to what waits or was handed over,
and that those of two copies are neighbours; and that the turns of a Drain are those
after the turns of the node so far.

`DstClient`: `ClientTypes`, `OperationsAlwaysEnd` and `ReadsReturnFreshValues`
(`ReadsAreFresh`). An
operation is younger than the time-out in the half of the loop before a tick, and
as old at most after it. A safe index that a client keeps is for the op that is pending:
at least what was committed when it was asked for and at most what is now, and the log
up to it does not change afterwards.
`AcksAreForOwnWrites` proves `AckIsForOwnWrite` where one client writes (`OneClientWrites`): entries in
flight and in the log, and pending writes, are of that client. Without this hypothesis the property
is false (finding `DstCollision`).

`Reconfiguration`: `QuorumsOverlap` and `OneWinner`, for any set of nodes. Majorities
of voter sets that differ in one node are too large for disjoint parts of the union; a
joint configuration asks a majority of the old voters as well, so it overlaps
with what comes before and after. These are facts about one change. `ChangesAreInTurn`
(`OneChangePending`) is that a leader has no more than one under way. `pendingConfIndex` alone does not
say so: a new leader only notes the end of its log, which it has from others. `ChangesInv`
follows every log: of two changes in it the earlier one is known to be committed by
whoever has the log (`EarlierCommitted`), as entries travel with the commit index, so that a candidate,
which has no committed change to apply, has applied all but the last (`EarlierApplied`).
The loop over the entries of a Ready is a recursive function (`ApplyEntries`), reasoned
about by `AllNumbers`.

`OneLeaderAtATime`, `CommittedIsForGood`, `ChangesAlwaysFit` (`OneLeaderPerTerm`,
`CommittedForGood`, `ChangesFit`) are the safety of raft while configurations change. They
are proved together, since each needs the others: the configuration of a node is what the
committed entries say, what is committed depends on quorums of configurations, and so do
elections. As for `Raft` a history explains the state. `SafetyInv` says that
there is one, `h`, that is `Good`: for every term that was led (`led`) the log of its leader,
the length it had at the election, what its leader had applied of it then, and who that was; all votes; and all acknowledgements
(node, term, index), whether or not the log they speak of still exists. Every log has for each of
its entries the beginning of the log of the leader who wrote it (`Written`).

- An entry of a leader's term *wins* (`Wins`) when a quorum of a configuration has
  acknowledged it that the leader may use there: one the log leads to at an index a, where all
  up to a is known to have won and at most one change lies between a and the entry.
  What a leader uses is thus defined by what has won, and what has won by what leaders
  use: `Winners` is the least set closed under this, so that a proof about it is by
  exhibiting a closed set and needs no induction. `Chosen` takes the
  acknowledgements there are, and what is committed is chosen; `Firm` takes those that may still
  come as well, from nodes that have not left the term.
- Configurations that are at most one change apart have only overlapping quorums
  (`QuorumsOverlap`, through joint ones too). That no more than one lies between, for elections
  as for commitment, is what `ChangesInv` gives.
- Who acknowledged a firm entry keeps it (`AcksHold`), and votes for a later term only for a log that
  reaches it (`VotesRespect`). Hence later leaders have all firm entries
  (`LeadersHave`): take the first that has not. The firm entries its log has are closed under
  winning. For what led to a further one its log has already, and what it had applied when it
  was elected is chosen, so the configurations of the two quorums are found on one log at most one
  change apart; the quorums share a node, which acknowledged the entry and then voted.
  In the same way two leaders of one term would have been elected by overlapping quorums.
- Every handler is a sequence of small steps of one node: stand, cast a ballot, count it, be crowned,
  append, count an acknowledgement, take entries and acknowledge them, learn a commit index, apply an entry.
  One lemma each (`FineStand`, `FineBallot`, `FineCrown`, `FineTake`, ...) shows that a good history
  remains or is extended (`Extends`); actions are composed of these.

What fits then follows: a change is proposed by a leader that has applied all those before it, in a
configuration equal to the one its log leads to (`AllFit`). It needs that a simple change touches at
most one node, which `EnterJoint` of the code enforces by taking larger ones through a joint
configuration and which `ReconfigurationAssumption` states.
`QuotaNeverOverestimated` (`QuotaIsNotOverestimated`): `QuotaInv` adds that only a leader uses
quota, since every loss of the leadership resets it. The other direction is not claimed: the quota may be too
low, as the comment of `reduceUncommittedSize` says, since a new leader does not count the tail that it inherits.

`ReadIndex`, for any number of reads besides: `ReadInvariant`, `ReadsNeverStale`
(`ReadsAreCurrent`), `RequestsBelongToLeaders` (`RequestsAreTheLeaders`), by the inductive
`ReadInv`.

- Reads do nothing to raft but make nodes say more: every step is one of `Raft`, after
  which a node may send heartbeats, forward a request or answer one (`Does`, `Hums`). So `CommitInv`
  holds of `ReadSpec` too, and is the first part of `ReadInv`.
- That a leader answers only what it has committed is not enough: when it notes a request,
  another node may know a higher commit index, told by a leader of a later term.
  `KnowsCommits` says when: a leader knows every commit index that any node knows, or the entry is of
  an earlier term, or a quorum is past the leader's term. `CommittedEntryInCurrentTerm` excludes the
  second, since logs are sorted by term. Without it the read would be stale.
- A restart may forget a commit index that was answered and not yet stored, so what is known in
  memory or on disk at some moment says too little. `KnownBacked` ties `known` to the history of
  `CommitInv` instead: a quorum acknowledged the entry, whether or not anybody remembers
  having committed it, and the history of a step extends that of the step before
  (`CommitsFromStep`). So a leader of a later term has it (`WinnerKnows`).
- In the third case the request is noted at an index that is too low, and must never be
  confirmed. `Overtaken` says that it is not: the nodes of a quorum are, on disk and hence
  over restarts, past the leader's term, have not acknowledged that request and have no answer to it on its way; none will be
  made, for a node answers a heartbeat in its own term only. Two quorums share a node, so
  no quorum acknowledges the request.
- Numbers are what ties an acknowledgement to a request: one that a quorum has acknowledged, or a
  later one (`ConfirmedMayBeAnswered`), was asked for by this leader in this term
  (`ConfirmationsWereAsked`), because the requests, and the acknowledgements with them, are forgotten with the
  leadership, and no node leads a term twice.

The proofs assume the named assumptions of the modules (finitely many nodes and at
least one, `None` not one of them, sizes are numbers) and none of the bounds.

Every property of `Raft` and of `ReadIndex` that a run checks is proved. Model-checked only:
`RaftTimers`, whose inbox is a fold over a sorted sequence; that a follower catches
up in `FlowControl`; and the explanations of what clients observe, which are about the
existence of an order. Liveness under fairness, `ENABLED` and the induction over data that a
fold needs (the library's induction rules take an operator, which the provers cannot
instantiate; `AllNumbers` serves for a loop over numbers only) are out of the prover's
reach and stay with TLC.

## 7. Not modelled

- Of raft: learners; reads by lease (`ReadOnlyLeaseBased`; the harness reads
  safely); asynchronous storage writes (the harness does not use them); a
  snapshot whose configuration does not contain the receiver; tracing and logging.
- Of the harness: the command line, statistics, and probabilities, which are
  nondeterminism here; the wall-clock limit of the linearizability search; a crash
  between the two writes of a Ready, which the in-memory storage cannot have.
- The evaluator and the ablation are sequential scripts over files and
  processes: what they get wrong (a build killed half-way, two evaluations at a time)
  is decided by the operating system and the optimiser, which is not in the repository.
- Of the fourteen copies of `raft.go` kept as `best_program.go`, seven under
  `out/` and seven under `out-rerun-*/` are byte for byte the same program, and
  the two programs differ from `initial_program.go` in `maybeSendAppend` alone.
  The differences are `Best` and `Rerun` of `FlowControl`; the rest of the text is
  modelled once and mapped to `initial_program.go`. The map therefore covers a
  small share of the lines of the tree, and most of those of the distinct code.
- Scripts, the toy optimisation run, the paper and the checkpoints hold no
  state machine of their own.
