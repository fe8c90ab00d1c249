-------------------------- MODULE RaftCommitProofs --------------------------
(***************************************************************************)
(* What is committed stays.  The argument follows the acknowledgements: an *)
(* entry that a leader wrote in its own term may become committed as long  *)
(* as a quorum has acknowledged it or still can, because the disk of who   *)
(* has not is in that term or before (Choosable).  Whoever acknowledged    *)
(* such an entry keeps it, votes only for candidates that have it, and so  *)
(* every later leader has it.  K is the set of all logs that leaders had,  *)
(* A the set of all acknowledgements that are stored.  At the end: what    *)
(* nodes say to each other, that raft does not panic on it, and from whom  *)
(* terms, transfers and campaigns come.                                    *)
(***************************************************************************)
EXTENDS RaftProofs

\* Two logs have the same first k entries
Has(a, b, k) == k =< Len(a) /\ k =< Len(b) /\ \A x \in 1..k : a[x] = b[x]

LeaderLog == [term : Nat, log : Seq(Entry)]
StoredAck == Node \X Nat \X Nat

\* An answer that acknowledges entries, and those that wait until a node has stored them
IsAck(m) == m.type = "MsgAppResp" /\ ~m.reject /\ m.index > 0

Waits(n, m) ==
    /\ IsAck(m)
    /\ m \in n.outbox \/ \E k \in 1..Len(n.self) : m = n.self[k]

\* Node j has acknowledged entry k of term t, or a later one
Acked(A, j, t, k) == \E x \in Nat : x >= k /\ <<j, t, x>> \in A

IsChosen(A, t, k) == \E Q \in Quorum : \A j \in Q : Acked(A, j, t, k)

\* A quorum has acknowledged entry k of term t or still can, where D are the disks
Choosable(D, A, t, k) ==
    \E Q \in Quorum : \A j \in Q : Acked(A, j, t, k) \/ D[j].term =< t

\* Entry k of a leader's log is its own and may become committed, or is
Own(r, k) == k \in 1..Len(r.log) /\ r.log[k].term = r.term

Firm(D, A, r, k) == Own(r, k) /\ Choosable(D, A, r.term, k)

LedTo(K, t, k) == \E r \in K : r.term = t /\ k =< Len(r.log)

\* A node or disk s has what an acknowledgement of entry y in term t says it has
Shows(D, K, A, s, t, y) ==
    \A r \in K : \A k \in Nat :
        r.term = t /\ k =< y /\ k =< Len(r.log) /\ (s.term = t \/ Firm(D, A, r, k)) =>
            Has(s.log, r.log, k)

\* The first c entries of a log were committed in a term up to t
Done(K, A, t, log, c) ==
    c = 0 \/ \E r \in K : \E x \in Nat :
                /\ r.term =< t /\ c =< x /\ Own(r, x) /\ IsChosen(A, r.term, x)
                /\ Has(log, r.log, c)

\* A message shows a part of a log, and the term before that part
ShowsPart(m, log) == IsSlice(m, log) /\ m.logTerm = TermAt(log, m.index)

-----------------------------------------------------------------------------
(***************************************************************************)
(* The invariant, part by part.                                            *)
(***************************************************************************)

\* Logs are sorted by term, and every entry was written by a leader of its term
Sorted(log) == \A k, l \in 1..Len(log) : k =< l => log[k].term =< log[l].term

LogsWritten(H, K) ==
    /\ \A h \in H : Sorted(h)
    /\ \A h \in H : \A k \in 1..Len(h) : \E r \in K : r.term = h[k].term /\ Has(h, r.log, k)
    /\ \A i \in Node :
          /\ \A k \in 1..Len(node[i].log) : node[i].log[k].term =< node[i].term
          /\ \A k \in 1..Len(disk[i].log) : disk[i].log[k].term =< disk[i].term
          /\ node[i].state = "Candidate" /\ disk[i].term = node[i].term =>
                disk[i].log = node[i].log

\* A leader's log ends with an entry of its own; logs of a term extend each other
LeadersWrote(H, K) ==
    /\ \A r \in K : r.term >= 1 /\ r.log \in H /\ Own(r, Len(r.log))
    /\ \A r, s \in K : r.term = s.term /\ Len(r.log) =< Len(s.log) =>
          Has(s.log, r.log, Len(r.log))

\* Later leaders have what may be committed
LeadersHave(K, A) ==
    \A r, s \in K : \A k \in Nat :
        r.term < s.term /\ Firm(disk, A, r, k) => Has(s.log, r.log, k)

\* A leader's log is the last of its term, and what it counts was acknowledged
Counts(K, A, n) ==
    n.state = "Leader" =>
        /\ \E r \in K : r.term = n.term /\ r.log = n.log
        /\ \A r \in K : r.term = n.term => Len(r.log) =< Len(n.log)
        /\ \A j \in Node : n.prog[j].match > 0 => <<j, n.term, n.prog[j].match>> \in A

LeadersCount(K, A) == \A i \in Node : Counts(K, A, node[i])

\* Acknowledgements are true, and stay true while it matters
AcksHold(K, A) ==
    /\ \A j \in Node : \A t, y \in Nat : <<j, t, y>> \in A =>
          /\ t =< disk[j].term /\ LedTo(K, t, y)
          /\ Shows(disk, K, A, disk[j], t, y)
          /\ Shows(disk, K, A, node[j], t, y)
    /\ \A i \in Node : \A m \in Message : Waits(node[i], m) =>
          /\ m.from = i /\ disk[i].term =< m.term /\ m.term =< node[i].term
          /\ LedTo(K, m.term, m.index)
          /\ Shows(disk, K, A, node[i], m.term, m.index)
    /\ \A m \in msgs : IsAck(m) => <<m.from, m.term, m.index>> \in A
    /\ \A i \in Node : \A k \in 1..Len(node[i].steps) :
          LET m == node[i].steps[k] IN IsAck(m) => <<i, m.term, m.index>> \in A

\* Node j has acknowledged entry y in term t, stored or not
AckedBy(A, j, t, y) ==
    \/ <<j, t, y>> \in A
    \/ \E m \in Message : Waits(node[j], m) /\ m.term = t /\ m.index = y

\* A request of a candidate tells of its log, and has a last entry that is at least the k-th
\* of term t
RequestsTell ==
    \A m \in AllMsgs : m.type = "MsgVote" /\ node[m.from].state = "Candidate"
                         /\ m.term = node[m.from].term =>
        m.index = LastIndex(node[m.from]) /\ m.logTerm = LastTerm(node[m.from])

Reaches(m, t, k) == m.logTerm > t \/ (m.logTerm = t /\ m.index >= k)

\* Who has acknowledged an entry votes for who has it
VotesRespect(K, A) ==
    \A g \in AllMsgs : \A t, y \in Nat : \A r \in K : \A k \in Nat :
        /\ IsGrant(g) /\ t < g.term /\ AckedBy(A, g.from, t, y)
        /\ r.term = t /\ k =< y /\ Firm(disk, A, r, k)
        => \E v \in msgs : /\ v.type = "MsgVote" /\ v.from = g.to /\ v.term = g.term
                           /\ Reaches(v, t, k)

\* What nodes and messages say is committed is
CommitsHold(K, A) ==
    /\ \A i \in Node :
          /\ Done(K, A, node[i].term, node[i].log, node[i].commit)
          /\ Done(K, A, disk[i].term, disk[i].log, disk[i].commit)
    /\ \A m \in AllMsgs : m.type = "MsgApp" =>
          \E s \in K : s.term = m.term /\ ShowsPart(m, s.log) /\ Done(K, A, m.term, s.log, m.commit)
    /\ \A m \in AllMsgs : m.type = "MsgHeartbeat" /\ m.commit > 0 =>
          /\ \E s \in K : s.term = m.term /\ Done(K, A, m.term, s.log, m.commit)
          /\ Acked(A, m.to, m.term, m.commit)

\* All of it but what concerns the leaders of the moment
History(H, K, A) ==
    /\ LogsWritten(H, K) /\ LeadersWrote(H, K) /\ LeadersHave(K, A)
    /\ AcksHold(K, A) /\ RequestsTell /\ VotesRespect(K, A) /\ CommitsHold(K, A)

CommitInv ==
    /\ ElectionInv /\ StoredInv
    /\ \E H \in SUBSET Seq(Entry) : \E K \in SUBSET LeaderLog : \E A \in SUBSET StoredAck :
          Explains(H) /\ History(H, K, A) /\ LeadersCount(K, A)


-----------------------------------------------------------------------------
(***************************************************************************)
(* Logs.                                                                   *)
(***************************************************************************)

\* What two logs have in common
LEMMA HasSym ==
    ASSUME NEW a, NEW b, NEW k, Has(a, b, k)
    PROVE  Has(b, a, k)
  BY DEF Has

LEMMA HasLess ==
    ASSUME NEW a \in Seq(Entry), NEW b \in Seq(Entry), NEW k \in Nat, NEW l \in Nat,
           Has(a, b, k), l =< k
    PROVE  Has(a, b, l)
  BY DEF Has

LEMMA HasTrans ==
    ASSUME NEW a \in Seq(Entry), NEW b \in Seq(Entry), NEW c \in Seq(Entry), NEW k \in Nat,
           Has(a, b, k), Has(b, c, k)
    PROVE  Has(a, c, k)
  BY DEF Has

\* Two logs that both have the beginning of a third
LEMMA HasVia ==
    ASSUME NEW a \in Seq(Entry), NEW b \in Seq(Entry), NEW c \in Seq(Entry),
           NEW k \in Nat, NEW l \in Nat, NEW x \in Nat,
           Has(a, b, k), Has(b, c, l), x =< k, x =< l
    PROVE  Has(a, c, x)
<1>1. Has(a, b, x) /\ Has(b, c, x)
  BY HasLess
<1> QED
  BY <1>1, HasTrans

LEMMA HasSelf ==
    ASSUME NEW a \in Seq(Entry), NEW k \in Nat, k =< Len(a)
    PROVE  Has(a, a, k)
  BY DEF Has

\* A longer log has what it had
LEMMA HasAppend ==
    ASSUME NEW a \in Seq(Entry), NEW e \in Entry
    PROVE  /\ Has(Append(a, e), a, Len(a)) /\ Append(a, e) \in Seq(Entry)
           /\ Len(Append(a, e)) = Len(a) + 1 /\ Append(a, e)[Len(a) + 1] = e
           /\ \A k \in 1..Len(a) : Append(a, e)[k] = a[k]
<1>1. Len(a) \in Nat
  OBVIOUS
<1> QED
  BY <1>1 DEF Has

\* What AppendAfter makes of a log: all entries are there, or those from the first that is
\* not are written over what follows
WrittenOver(a, from, es, b) ==
    \E first \in 1..Len(es) :
        /\ from + first > Len(a) \/ a[from + first].term # es[first].term
        /\ \A k \in 1..first - 1 : from + k =< Len(a) /\ a[from + k].term = es[k].term
        /\ b \in Seq(Entry) /\ Len(b) = from + Len(es)
        /\ \A x \in 1..from + first - 1 : x =< Len(a) /\ b[x] = a[x]
        /\ \A x \in from + first..from + Len(es) : b[x] = es[x - from]

AllThere(a, from, es) ==
    \A k \in 1..Len(es) : from + k =< Len(a) /\ a[from + k].term = es[k].term

LEMMA AfterShape ==
    ASSUME NEW a \in Seq(Entry), NEW from \in Nat, from =< Len(a), NEW es \in Seq(Entry)
    PROVE  \/ AppendAfter(a, from, es) = a /\ AllThere(a, from, es)
           \/ WrittenOver(a, from, es, AppendAfter(a, from, es))
<1> DEFINE conflict == {k \in 1..Len(es) :
                          from + k > Len(a) \/ a[from + k].term # es[k].term}
           first == Min(conflict)
           b == AppendAfter(a, from, es)
<1>1. Len(es) \in Nat /\ Len(a) \in Nat
  OBVIOUS
<1>2. CASE conflict = {}
  <2>1. b = a
    BY <1>2 DEF AppendAfter
  <2>2. \A k \in 1..Len(es) : ~(from + k > Len(a)) /\ a[from + k].term = es[k].term
    BY <1>2
  <2>3. \A k \in 1..Len(es) : from + k =< Len(a) /\ a[from + k].term = es[k].term
    BY <1>1, <2>2
  <2> QED
    BY <2>1, <2>3 DEF AllThere
<1>3. CASE conflict # {}
  <2>1. first \in conflict /\ \A k \in conflict : first =< k
    <3>1. conflict \in SUBSET Nat
      OBVIOUS
    <3> HIDE DEF conflict
    <3> QED
      BY <1>3, <3>1, MinIn
  <2>2. b = SubSeq(a, 1, from + first - 1) \o EntriesFrom(es, first)
    BY <1>3 DEF AppendAfter
  <2>3. /\ first \in 1..Len(es)
        /\ from + first > Len(a) \/ a[from + first].term # es[first].term
    <3> HIDE DEF first
    <3> QED
      BY <2>1
  <2>4. \A k \in 1..first - 1 : from + k =< Len(a) /\ a[from + k].term = es[k].term
    <3> SUFFICES ASSUME NEW k \in 1..first - 1
                 PROVE  from + k =< Len(a) /\ a[from + k].term = es[k].term
      OBVIOUS
    <3>1. k \notin conflict /\ k \in 1..Len(es)
      <4> HIDE DEF conflict, first
      <4>1. first \in Nat
        BY <2>3
      <4>2. k \in 1..Len(es) /\ ~(first =< k)
        BY <1>1, <2>3, <4>1
      <4> QED
        BY <2>1, <4>2
    <3>2. ~(from + k > Len(a)) /\ a[from + k].term = es[k].term
      <4> HIDE DEF first
      <4> QED
        BY <3>1
    <3> HIDE DEF first
    <3>3. k \in Nat
      BY <3>1
    <3> QED
      BY <1>1, <3>2, <3>3
  <2> HIDE DEF first, conflict, b
  <2>5. first \in Nat \ {0} /\ first =< Len(es)
    BY <1>1, <2>3
  <2> DEFINE l == from + first - 1
             s == SubSeq(a, 1, l)
             t == EntriesFrom(es, first)
  <2>6. l \in Nat /\ l =< Len(a)
    <3>1. CASE first = 1
      BY <1>1, <2>5, <3>1
    <3>2. CASE first # 1
      <4>1. first - 1 \in 1..first - 1 /\ from + (first - 1) = l
        BY <1>1, <2>5, <3>2
      <4>2. from + (first - 1) =< Len(a)
        BY <2>4, <4>1
      <4>3. l \in Nat
        BY <2>5
      <4> QED
        BY <4>1, <4>2, <4>3
    <3> QED
      BY <3>1, <3>2
  <2>7. s \in Seq(Entry) /\ Len(s) = l /\ \A x \in 1..l : s[x] = a[x]
    <3>1. \A x \in 1..l : a[x] \in Entry
      BY <1>1, <2>6
    <3> HIDE DEF l
    <3>2. /\ SubSeq(a, 1, l) \in Seq(Entry)
          /\ Len(SubSeq(a, 1, l)) = (IF 1 <= l THEN l - 1 + 1 ELSE 0)
          /\ \A x \in 1..l - 1 + 1 : SubSeq(a, 1, l)[x] = a[1 + x - 1]
      BY <2>6, <3>1, SubSeqProperties
    <3>3. l - 1 + 1 = l /\ \A x \in 1..l : 1 + x - 1 = x
      BY <2>6
    <3>4. Len(SubSeq(a, 1, l)) = l
      BY <2>6, <3>2
    <3> QED
      BY <3>2, <3>3, <3>4
  <2>8. /\ t \in Seq(Entry) /\ Len(t) = Len(es) - first + 1
        /\ \A x \in 1..Len(es) - first + 1 : t[x] = es[first + x - 1]
    <3>1. \A x \in first..Len(es) : es[x] \in Entry
      BY <1>1, <2>5
    <3> QED
      BY <1>1, <2>5, <3>1, SubSeqProperties DEF EntriesFrom
  <2>9. b = s \o t
    BY <2>2
  <2>10. l + (Len(es) - first + 1) = from + Len(es)
    BY <1>1, <2>5
  <2> HIDE DEF s, t
  <2>11. /\ b \in Seq(Entry) /\ Len(b) = from + Len(es)
         /\ \A x \in 1..from + Len(es) : b[x] = IF x <= l THEN s[x] ELSE t[x - l]
    <3> HIDE DEF l
    <3>1. /\ s \o t \in Seq(Entry) /\ Len(s \o t) = Len(s) + Len(t)
          /\ \A x \in 1..Len(s) + Len(t) :
                (s \o t)[x] = IF x <= Len(s) THEN s[x] ELSE t[x - Len(s)]
      BY <2>7, <2>8, ConcatProperties
    <3>2. Len(s) = l /\ Len(s) + Len(t) = from + Len(es)
      BY <2>7, <2>8, <2>10
    <3> QED
      BY <2>9, <3>1, <3>2
  <2>12. ASSUME NEW x \in 1..from + first - 1
         PROVE  x =< Len(a) /\ b[x] = a[x]
    <3>1. x \in 1..l /\ x =< l /\ x \in 1..from + Len(es)
      BY <1>1, <2>5
    <3>2. b[x] = s[x] /\ s[x] = a[x]
      <4> HIDE DEF l
      <4> QED
        BY <2>7, <2>11, <3>1
    <3> QED
      BY <1>1, <2>6, <3>1, <3>2
  <2>13. ASSUME NEW x \in from + first..from + Len(es)
         PROVE  b[x] = es[x - from]
    <3>1. /\ x \in 1..from + Len(es) /\ ~(x =< l)
          /\ x - l \in 1..Len(es) - first + 1 /\ first + (x - l) - 1 = x - from
      BY <1>1, <2>5, <2>6
    <3>2. b[x] = t[x - l]
      <4> HIDE DEF l
      <4> QED
        BY <2>11, <3>1
    <3>3. t[x - l] = es[first + (x - l) - 1]
      <4> HIDE DEF l
      <4> QED
        BY <2>8, <3>1
    <3> QED
      BY <3>1, <3>2, <3>3
  <2>14. WrittenOver(a, from, es, b)
    BY <2>3, <2>4, <2>11, <2>12, <2>13 DEF WrittenOver
  <2> QED
    BY <2>14 DEF b
<1> QED
  BY <1>2, <1>3

\* The entries of a message leave alone the beginning of a log that the log they are from
\* does not contradict
LEMMA KeepPrefix ==
    ASSUME NEW a \in Seq(Entry), NEW h \in Seq(Entry), NEW w \in Seq(Entry), NEW m \in AppMsg,
           IsSlice(m, h), MatchTerm(a, m.index, m.logTerm), NEW y \in Nat, Has(a, w, y),
           \A x \in 1..y : x =< Len(h) => h[x] = w[x]
    PROVE  Has(AppendAfter(a, m.index, m.entries), w, y)
<1> DEFINE from == m.index
           es == m.entries
           b == AppendAfter(a, from, es)
<1>1. /\ from \in Nat /\ es \in Seq(Entry) /\ Len(es) \in Nat /\ Len(a) \in Nat
      /\ Len(h) \in Nat /\ from =< Len(a) /\ Len(w) \in Nat
      /\ y =< Len(a) /\ y =< Len(w) /\ \A x \in 1..y : a[x] = w[x]
  BY DEF AppMsg, MatchTerm, Has
<1>2. CASE b = a
  BY <1>2
<1>3. CASE b # a
  <2>1. PICK first \in 1..Len(es) :
           /\ from + first > Len(a) \/ a[from + first].term # es[first].term
           /\ Len(b) = from + Len(es)
           /\ \A x \in 1..from + first - 1 : x =< Len(a) /\ b[x] = a[x]
    <3> HIDE DEF from, es
    <3>1. WrittenOver(a, from, es, b)
      BY <1>1, <1>3, AfterShape
    <3> HIDE DEF b
    <3> QED
      BY <3>1 DEF WrittenOver
  <2>2. es # <<>>
    BY <1>1, <2>1
  <2>3. /\ from + Len(es) =< Len(h)
        /\ \A x \in 1..Len(es) : es[x] = h[from + x]
    BY <2>2 DEF IsSlice
  <2> HIDE DEF b, from, es
  <2>4. from + first > y
    <3> SUFFICES ASSUME from + first =< y
                 PROVE  FALSE
      BY <1>1, <2>1
    <3>1. from + first \in 1..y /\ from + first =< Len(h) /\ ~(from + first > Len(a))
      BY <1>1, <2>1, <2>3
    <3>2. a[from + first] = es[first]
      BY <1>1, <2>3, <3>1
    <3> QED
      BY <2>1, <3>1, <3>2
  <2>5. y =< Len(b) /\ \A x \in 1..y : x \in 1..from + first - 1
    BY <1>1, <2>1, <2>4
  <2> QED
    BY <1>1, <2>1, <2>5 DEF Has, b, from, es
<1> QED
  BY <1>2, <1>3

\* A log that agrees with another up to the entry before a message has all of the other up
\* to the last entry of the message when it has taken it
LEMMA TakesPart ==
    ASSUME NEW a \in Seq(Entry), NEW h \in Seq(Entry), NEW m \in AppMsg,
           ShowsPart(m, h), Agree(a, h), MatchTerm(a, m.index, m.logTerm),
           m.index + Len(m.entries) =< Len(h)
    PROVE  Has(AppendAfter(a, m.index, m.entries), h, m.index + Len(m.entries))
<1> DEFINE from == m.index
           es == m.entries
           b == AppendAfter(a, from, es)
<1>1. /\ from \in Nat /\ es \in Seq(Entry) /\ Len(es) \in Nat /\ Len(a) \in Nat
      /\ Len(h) \in Nat /\ from =< Len(a) /\ TermAt(a, from) = TermAt(h, from)
      /\ from + Len(es) =< Len(h)
  BY DEF AppMsg, MatchTerm, ShowsPart
<1>2. \A x \in 1..Len(es) : es[x] = h[from + x]
  <2>1. ASSUME NEW x \in 1..Len(es)
        PROVE  es[x] = h[from + x]
    <3>1. es # <<>>
      BY <1>1
    <3> QED
      BY <3>1 DEF ShowsPart, IsSlice
  <2> QED
    BY <2>1
<1> HIDE DEF from, es
<1>3. \A x \in 1..from : x =< Len(a) /\ a[x] = h[x]
  <2>1. CASE from = 0
    BY <1>1, <2>1
  <2>2. CASE from # 0
    <3>1. from \in Nat \ {0} /\ from \in 1..Len(a) /\ from \in 1..Len(h)
          /\ from =< Len(a) /\ from =< Len(h)
      BY <1>1, <2>2
    <3>2. a[from].term = h[from].term
      BY <1>1, <3>1 DEF TermAt
    <3>3. \A x \in 1..from : a[x] = h[x]
      BY <3>1, <3>2 DEF Agree
    <3> QED
      BY <1>1, <3>3
  <2> QED
    BY <2>1, <2>2
\* Where the terms of the first entries are the same, so are the entries
<1>4. ASSUME NEW l \in 0..Len(es),
             \A k \in 1..l : from + k =< Len(a) /\ a[from + k].term = es[k].term
      PROVE  from + l =< Len(a) /\ \A x \in 1..from + l : a[x] = h[x]
  <2>1. CASE l = 0
    BY <1>1, <1>3, <2>1
  <2>2. CASE l # 0
    <3>1. l \in 1..l /\ l \in 1..Len(es) /\ from + l \in Nat \ {0} /\ from + l =< Len(h)
      BY <1>1, <2>2
    <3>2. from + l =< Len(a) /\ a[from + l].term = h[from + l].term
      BY <1>2, <1>4, <3>1
    <3> QED
      BY <3>1, <3>2 DEF Agree
  <2> QED
    BY <2>1, <2>2
<1>5. CASE /\ b = a
           /\ \A k \in 1..Len(es) : from + k =< Len(a) /\ a[from + k].term = es[k].term
  <2>1. Len(es) \in 0..Len(es)
    BY <1>1
  <2>2. from + Len(es) =< Len(a) /\ \A x \in 1..from + Len(es) : a[x] = h[x]
    BY <1>4, <1>5, <2>1
  <2> QED
    BY <1>1, <1>5, <2>2 DEF Has, from, es
<1>6. ASSUME NEW first \in 1..Len(es),
             \A k \in 1..first - 1 : from + k =< Len(a) /\ a[from + k].term = es[k].term,
             b \in Seq(Entry), Len(b) = from + Len(es),
             \A x \in 1..from + first - 1 : x =< Len(a) /\ b[x] = a[x],
             \A x \in from + first..from + Len(es) : b[x] = es[x - from]
      PROVE  Has(b, h, from + Len(es))
  <2>1. first - 1 \in 0..Len(es) /\ from + (first - 1) = from + first - 1
    BY <1>1
  <2>2. \A x \in 1..from + first - 1 : a[x] = h[x]
    BY <1>4, <1>6, <2>1
  <2>3. ASSUME NEW x \in 1..from + Len(es)
        PROVE  b[x] = h[x]
    <3>1. CASE x =< from + first - 1
      <4>1. x \in 1..from + first - 1
        BY <1>1, <3>1
      <4> QED
        BY <1>6, <2>2, <4>1
    <3>2. CASE ~(x =< from + first - 1)
      <4>1. x \in from + first..from + Len(es) /\ x - from \in 1..Len(es)
            /\ from + (x - from) = x
        BY <1>1, <3>2
      <4> QED
        BY <1>2, <1>6, <4>1
    <3> QED
      BY <3>1, <3>2
  <2> HIDE DEF b
  <2> QED
    BY <1>1, <1>6, <2>3 DEF Has
<1>7. WrittenOver(a, from, es, b) => Has(b, h, from + Len(es))
  <2> HIDE DEF b
  <2> QED
    BY <1>6 DEF WrittenOver
<1>8. (b = a /\ AllThere(a, from, es)) \/ WrittenOver(a, from, es, b)
  BY <1>1, AfterShape
<1> QED
  BY <1>5, <1>7, <1>8 DEF AllThere, from, es

-----------------------------------------------------------------------------
(***************************************************************************)
(* What a change of node i from n to o may do to the log, the commit index *)
(* and the acknowledgements.                                               *)
(***************************************************************************)

\* The messages that are added
Says(i, n, o) ==
    \A m \in o.outbox \ n.outbox :
        /\ m.type = "MsgApp" =>
              /\ o.state = "Leader" /\ m.term = o.term
              /\ ShowsPart(m, o.log) /\ m.commit =< o.commit
        /\ m.type = "MsgHeartbeat" =>
              /\ o.state = "Leader" /\ m.term = o.term
              /\ m.commit =< o.commit /\ m.commit =< o.prog[m.to].match
        /\ m.type = "MsgVote" => m.index = LastIndex(o) /\ m.logTerm = LastTerm(o)
        /\ IsGrant(m) =>
              /\ o.log = n.log
              /\ \E v \in msgs : /\ v.type = "MsgVote" /\ v.from = m.to /\ v.term = m.term
                                 /\ IsUpToDate(n, v.index, v.logTerm)

\* The acknowledgements that are added: none, or those of entry y
NoAcks(n, o) == \A m \in Message : Waits(o, m) => Waits(n, m)

AcksUpTo(i, n, o, y) ==
    \A m \in Message :
        Waits(o, m) => Waits(n, m) \/ (m.from = i /\ m.term = o.term /\ m.index = y)

\* A message that node i may be told
Told(i, m) == m \in msgs \/ \E k \in 1..Len(node[i].steps) : m = node[i].steps[k]

\* What a leader has counted of j, it had counted before or it has been told
Heard(i, n, o, j) ==
    \/ o.prog[j].match = n.prog[j].match
    \/ \E m \in Message :
          /\ Told(i, m) /\ IsAck(m)
          /\ m.from = j /\ m.term = o.term /\ m.index = o.prog[j].match

\* A leader commits an entry of its own that a quorum has acknowledged
CommitsOwn(o) ==
    /\ o.state = "Leader"
    /\ o.commit \in 1..Len(o.log) /\ o.log[o.commit].term = o.term
    /\ {j \in Node : o.prog[j].match >= o.commit} \in Quorum

\* The log stays; a leader hears what others have
Speaks(i, n, o) ==
    /\ o.log = n.log /\ NoAcks(n, o)
    /\ o.commit = n.commit \/ CommitsOwn(o)
    /\ o.state = "Leader" =>
          n.state = "Leader" /\ o.term = n.term /\ \A j \in Node : Heard(i, n, o, j)

\* A leader, perhaps just elected, appends an entry and owes itself the acknowledgement
Appends(i, n, o) ==
    /\ o.state = "Leader" /\ o.term = n.term /\ o.commit = n.commit
    /\ \E e \in Entry : e.term = o.term /\ o.log = Append(n.log, e)
    /\ AcksUpTo(i, n, o, Len(o.log))
    /\ \/ n.state = "Leader" /\ \A j \in Node : o.prog[j].match = n.prog[j].match
       \/ /\ n.state = "Candidate"
          /\ \A j \in Node : o.prog[j].match = IF j = i THEN Len(n.log) ELSE 0

\* A follower takes the entries of a MsgApp, or answers that it has more
Takes(i, n, o) ==
    /\ o.state = "Follower"
    /\ \E m \in msgs :
          /\ m.type = "MsgApp" /\ m.term = o.term
          /\ \/ /\ MatchTerm(n.log, m.index, m.logTerm)
                /\ o.log = AppendAfter(n.log, m.index, m.entries)
                /\ \/ o.commit = n.commit
                   \/ o.commit =< m.commit /\ o.commit =< m.index + Len(m.entries)
                /\ AcksUpTo(i, n, o, m.index + Len(m.entries))
             \/ /\ o.log = n.log /\ o.commit = n.commit
                /\ AcksUpTo(i, n, o, n.commit)

\* A follower learns the commit index from a heartbeat
Beats(i, n, o) ==
    /\ o.state = "Follower" /\ o.log = n.log /\ NoAcks(n, o)
    /\ \E m \in msgs : /\ m.type = "MsgHeartbeat" /\ m.to = i /\ m.term = o.term
                       /\ o.commit = m.commit /\ m.commit > 0

CommitStep(i, n, o) ==
    /\ Says(i, n, o) /\ o.commit >= n.commit
    /\ (Speaks(i, n, o) \/ Appends(i, n, o) \/ Takes(i, n, o) \/ Beats(i, n, o))

\* A change of role, or of nothing of concern
Follows(n, o) ==
    /\ o.log = n.log /\ o.self = n.self /\ o.outbox = n.outbox /\ o.commit = n.commit
    /\ \/ o.state \in {"Follower", "PreCandidate"}
       \/ o.state = n.state /\ o.term = n.term /\ o.prog = n.prog

\* A change that only sends, and sends of the log and the commit index as they are
Tells(n, o) ==
    /\ o.log = n.log /\ o.commit = n.commit /\ o.term = n.term /\ o.state = n.state
    /\ o.self = n.self /\ o.steps = n.steps
    /\ \A j \in Node : o.prog[j].match = n.prog[j].match
    /\ \A m \in o.outbox \ n.outbox :
          /\ m.type = "MsgApp" => m.term = n.term /\ ShowsPart(m, n.log) /\ m.commit = n.commit
          /\ m.type \notin {"MsgHeartbeat", "MsgVote", "MsgVoteResp"} /\ ~IsAck(m)

-----------------------------------------------------------------------------
(***************************************************************************)
(* How these changes compose.                                              *)
(***************************************************************************)

\* One thing is told after another
LEMMA TellsTrans ==
    ASSUME NEW n, NEW o, NEW p, Tells(n, o), Tells(o, p)
    PROVE  Tells(n, p)
<1>1. \A m \in p.outbox \ n.outbox : m \in p.outbox \ o.outbox \/ m \in o.outbox \ n.outbox
  OBVIOUS
<1>2. /\ p.log = n.log /\ p.commit = n.commit /\ p.term = n.term /\ p.state = n.state
      /\ p.self = n.self /\ p.steps = n.steps
      /\ \A j \in Node : p.prog[j].match = n.prog[j].match
  BY DEF Tells
<1>3. \A m \in p.outbox \ n.outbox :
          /\ m.type = "MsgApp" => m.term = n.term /\ ShowsPart(m, n.log) /\ m.commit = n.commit
          /\ m.type \notin {"MsgHeartbeat", "MsgVote", "MsgVoteResp"} /\ ~IsAck(m)
  <2> SUFFICES ASSUME NEW m \in p.outbox \ n.outbox
               PROVE  /\ m.type = "MsgApp" =>
                           m.term = n.term /\ ShowsPart(m, n.log) /\ m.commit = n.commit
                      /\ m.type \notin {"MsgHeartbeat", "MsgVote", "MsgVoteResp"} /\ ~IsAck(m)
    OBVIOUS
  <2>1. CASE m \in p.outbox \ o.outbox
    BY <2>1 DEF Tells
  <2>2. CASE m \in o.outbox \ n.outbox
    BY <2>2 DEF Tells
  <2> QED
    BY <1>1, <2>1, <2>2
<1> QED
  BY <1>2, <1>3 DEF Tells

\* What is told acknowledges nothing
LEMMA TellsNoAcks ==
    ASSUME NEW n, NEW o, Tells(n, o)
    PROVE  NoAcks(n, o)
  BY DEF Tells, NoAcks, Waits

\* What a leader tells
LEMMA TellsSays ==
    ASSUME NEW i \in Node, NEW n \in NodeState, NEW o \in NodeState, Tells(n, o),
           n.state = "Leader"
    PROVE  Says(i, n, o)
<1>1. o.commit \in Nat /\ o.commit = n.commit /\ o.term = n.term /\ o.state = n.state
      /\ o.log = n.log
  BY DEF NodeState, Tells
<1>2. \A m \in o.outbox \ n.outbox :
          /\ m.type = "MsgApp" => m.term = n.term /\ ShowsPart(m, n.log) /\ m.commit = n.commit
          /\ m.type \notin {"MsgHeartbeat", "MsgVote", "MsgVoteResp"} /\ ~IsAck(m)
  BY DEF Tells
<1>3. \A m \in o.outbox \ n.outbox : m.type = "MsgApp" => m.commit =< o.commit
  BY <1>1, <1>2
<1> QED
  BY <1>1, <1>2, <1>3 DEF Says, IsGrant

LEMMA SameCommit ==
    ASSUME NEW n \in NodeState, NEW o, o.commit = n.commit
    PROVE  o.commit >= n.commit
  BY DEF NodeState

LEMMA TellsSpeaks ==
    ASSUME NEW i \in Node, NEW n \in NodeState, NEW o \in NodeState, Tells(n, o),
           n.state = "Leader"
    PROVE  CommitStep(i, n, o)
<1>1. Says(i, n, o) /\ NoAcks(n, o)
  BY TellsSays, TellsNoAcks
<1>2. Speaks(i, n, o)
  BY <1>1 DEF Tells, Speaks, Heard
<1>3. o.commit >= n.commit
  BY SameCommit DEF Tells
<1> QED
  BY <1>1, <1>2, <1>3 DEF CommitStep

\* What a change of role is
LEMMA FollowsSpeaks ==
    ASSUME NEW i \in Node, NEW n \in NodeState, NEW o \in NodeState, Follows(n, o)
    PROVE  CommitStep(i, n, o)
<1>1. Says(i, n, o) /\ NoAcks(n, o)
  BY DEF Follows, Says, NoAcks, Waits
<1>2. o.state = "Leader" => n.state = "Leader" /\ o.term = n.term /\ o.prog = n.prog
  BY DEF Follows
<1>3. Speaks(i, n, o)
  BY <1>1, <1>2 DEF Follows, Speaks, Heard
<1>4. o.commit >= n.commit
  BY SameCommit DEF Follows
<1> QED
  BY <1>1, <1>3, <1>4 DEF CommitStep

\* A step after a change of role
LEMMA FollowsThen ==
    ASSUME NEW i \in Node, NEW n \in NodeState, NEW a \in NodeState, NEW o \in NodeState,
           Follows(n, a), CommitStep(i, a, o)
    PROVE  CommitStep(i, n, o)
<1>1. /\ a.log = n.log /\ a.outbox = n.outbox /\ a.self = n.self
      /\ a.commit = n.commit
      /\ a.state \in {"Leader", "Candidate"} =>
            a.state = n.state /\ a.term = n.term /\ a.prog = n.prog
  BY DEF Follows
<1>2. \A m : Waits(a, m) <=> Waits(n, m)
  BY <1>1 DEF Waits
<1>3. Says(i, n, o)
  <2>1. \A x, y : IsUpToDate(a, x, y) <=> IsUpToDate(n, x, y)
    BY <1>1 DEF IsUpToDate, LastTerm, LastIndex
  <2> QED
    BY <1>1, <2>1 DEF CommitStep, Says
<1>4. NoAcks(a, o) => NoAcks(n, o)
  BY <1>2 DEF NoAcks
<1>5. \A x : AcksUpTo(i, a, o, x) => AcksUpTo(i, n, o, x)
  BY <1>2 DEF AcksUpTo
<1>6. Speaks(i, a, o) => Speaks(i, n, o)
  BY <1>1, <1>4 DEF Speaks, Heard
<1>7. Appends(i, a, o) => Appends(i, n, o)
  BY <1>1, <1>5 DEF Appends
<1>8. Takes(i, a, o) => Takes(i, n, o)
  BY <1>1, <1>5 DEF Takes
<1>9. Beats(i, a, o) => Beats(i, n, o)
  BY <1>1, <1>4 DEF Beats
<1>10. o.commit >= n.commit
  BY <1>1 DEF CommitStep
<1> QED
  BY <1>3, <1>6, <1>7, <1>8, <1>9, <1>10 DEF CommitStep

-----------------------------------------------------------------------------
(***************************************************************************)
(* What is sent.                                                           *)
(***************************************************************************)

\* A MsgApp says what its sender has and knows to be committed
LEMMA AppTells ==
    ASSUME NEW i \in Node, NEW n \in NodeState, NEW j \in Node, NEW next \in Nat \ {0}
    PROVE  LET m == App(i, n, j, next)
           IN  /\ m.type = "MsgApp" /\ m.term = n.term /\ m.commit = n.commit
               /\ ShowsPart(m, n.log)
<1> DEFINE m == App(i, n, j, next)
<1>1. IsSlice(m, n.log)
  BY AppIsSlice
<1>2. /\ m.type = "MsgApp" /\ m.term = n.term /\ m.commit = n.commit
      /\ m.logTerm = TermAt(n.log, m.index)
  BY DEF App
<1> HIDE DEF m
<1>3. ShowsPart(m, n.log)
  BY <1>1, <1>2 DEF ShowsPart
<1> QED
  BY <1>2, <1>3 DEF m

\* What is known of a peer, but for what it has acknowledged
LEMMA MatchKept ==
    ASSUME NEW pr \in Progress
    PROVE  /\ BecomeReplicate(pr).match = pr.match /\ BecomeProbe(pr).match = pr.match
           /\ \A count : SentEntries(pr, count).match = pr.match
           /\ \A x, y : DecrTo(pr, x, y).match = pr.match
           /\ \A c : [pr EXCEPT !.sentCommit = c].match = pr.match
           /\ \A k : MaybeUpdate(pr, k).match = IF k =< pr.match THEN pr.match ELSE k
  BY DEF BecomeReplicate, BecomeProbe, SentEntries, DecrTo, MaybeUpdate, Progress

LEMMA SetProgTells ==
    ASSUME NEW n \in NodeState, NEW j \in Node, NEW pr, pr.match = n.prog[j].match
    PROVE  Tells(n, [n EXCEPT !.prog[j] = pr])
  BY DEF Tells, NodeState

LEMMA SelfTells ==
    ASSUME NEW n
    PROVE  Tells(n, n)
  BY DEF Tells

LEMMA SendTells ==
    ASSUME NEW n \in NodeState, NEW ms \in SUBSET Message,
           \A m \in ms : m.type \in {"MsgHeartbeatResp", "MsgTimeoutNow", "MsgTransferLeader",
                                      "MsgProp", "MsgPreVote", "MsgPreVoteResp"}
    PROVE  Tells(n, Send(n, ms))
<1> DEFINE o == Send(n, ms)
<1>1. /\ o.log = n.log /\ o.commit = n.commit /\ o.term = n.term /\ o.state = n.state
      /\ o.self = n.self /\ o.steps = n.steps /\ o.prog = n.prog
      /\ o.outbox = n.outbox \cup ms
  BY DEF Send, NodeState
<1> HIDE DEF o
<1> QED
  BY <1>1 DEF Tells, IsAck, o

\* maybeSendAppend
LEMMA MaybeSendAppendTells ==
    ASSUME NEW i \in Node, NEW n \in NodeState,
           NEW peers \in SUBSET Node, NEW sendIfEmpty \in BOOLEAN
    PROVE  Tells(n, MaybeSendAppend(i, n, peers, sendIfEmpty))
<1> DEFINE o == MaybeSendAppend(i, n, peers, sendIfEmpty)
           app(j) == App(i, n, j, n.prog[j].next)
           to == {j \in peers : /\ ~n.prog[j].paused
                                /\ sendIfEmpty \/ app(j).entries # <<>>}
           sent(j) == [SentEntries(n.prog[j], Len(app(j).entries)) EXCEPT
                         !.sentCommit = n.commit]
<1>1. /\ o.log = n.log /\ o.commit = n.commit /\ o.term = n.term /\ o.state = n.state
      /\ o.self = n.self /\ o.steps = n.steps
  BY DEF MaybeSendAppend, NodeState
<1>2. \A m \in o.outbox \ n.outbox : \E j \in Node : m = App(i, n, j, n.prog[j].next)
  BY DEF MaybeSendAppend, NodeState
<1>3. o.prog = [j \in Node |-> IF j \in to THEN sent(j) ELSE n.prog[j]]
  BY DEF MaybeSendAppend, NodeState
<1>4. ASSUME NEW j \in Node
      PROVE  sent(j).match = n.prog[j].match
  <2> DEFINE p == SentEntries(n.prog[j], Len(app(j).entries))
  <2>1. n.prog[j] \in Progress
    BY ProgType
  <2>2. p.match = n.prog[j].match
    <3> HIDE DEF app
    <3> QED
      BY <2>1, MatchKept
  <2>3. [p EXCEPT !.sentCommit = n.commit].match = p.match
    <3> HIDE DEF app
    <3> QED
      BY <2>1 DEF SentEntries, Progress
  <2> QED
    BY <2>2, <2>3
<1> HIDE DEF o, sent, to
<1>5. \A j \in Node : o.prog[j].match = n.prog[j].match
  BY <1>3, <1>4
<1>6. \A m \in o.outbox \ n.outbox : /\ m.type = "MsgApp" /\ m.term = n.term
                                     /\ m.commit = n.commit /\ ShowsPart(m, n.log)
  BY <1>2, ProgType, AppTells
<1> QED
  BY <1>1, <1>5, <1>6 DEF Tells, IsAck, o

\* The loop over what is left to send
LEMMA SendRestTells ==
    ASSUME NEW i \in Node, NEW n \in NodeState, NEW j \in Node
    PROVE  Tells(n, SendRest(i, n, j))
<1> DEFINE o == SendRest(i, n, j)
<1>1. /\ o.log = n.log /\ o.commit = n.commit /\ o.term = n.term /\ o.state = n.state
      /\ o.self = n.self /\ o.steps = n.steps
  BY DEF SendRest, NodeState
<1>2. \A m \in o.outbox \ n.outbox : \E k \in n.prog[j].next..LastIndex(n) : m = App(i, n, j, k)
  BY DEF SendRest, NodeState
<1>3. n.prog[j].next..LastIndex(n) \subseteq Nat \ {0}
  BY ProgType, LastIndexType
<1>4. \A k \in Node : o.prog[k].match = n.prog[k].match
  BY ProgType DEF SendRest, NodeState, Progress
<1> HIDE DEF o
<1>5. \A m \in o.outbox \ n.outbox : /\ m.type = "MsgApp" /\ m.term = n.term
                                     /\ m.commit = n.commit /\ ShowsPart(m, n.log)
  BY <1>2, <1>3, AppTells
<1> QED
  BY <1>1, <1>4, <1>5 DEF Tells, IsAck, o

\* bcastAppend
LEMMA BcastAppendTells ==
    ASSUME NEW i \in Node, NEW n \in NodeState
    PROVE  Tells(n, BcastAppend(i, n))
  BY MaybeSendAppendTells DEF BcastAppend

\* bcastHeartbeat: no peer is told of more than it has acknowledged
LEMMA BcastHeartbeatStep ==
    ASSUME NEW i \in Node, NEW n \in NodeState, NEW ctxs \in SUBSET Nat, n.state = "Leader"
    PROVE  CommitStep(i, n, BcastHeartbeat(i, n, ctxs))
<1> DEFINE o == BcastHeartbeat(i, n, ctxs)
           commit(j) == Min({n.prog[j].match, n.commit})
           beat(j, c) == [type |-> "MsgHeartbeat", from |-> i, to |-> j, term |-> n.term,
                          commit |-> commit(j), ctx |-> c]
           told(j) == [n.prog[j] EXCEPT !.sentCommit = commit(j)]
<1>1. /\ o.log = n.log /\ o.commit = n.commit /\ o.term = n.term /\ o.state = n.state
      /\ o.self = n.self /\ o.steps = n.steps
      /\ o.outbox = n.outbox \cup {beat(j, c) : j \in Node \ {i}, c \in ctxs}
      /\ o.prog = [j \in Node |-> IF j = i THEN n.prog[j] ELSE told(j)]
  BY DEF BcastHeartbeat, NodeState
<1>2. ASSUME NEW j \in Node
      PROVE  /\ commit(j) =< n.commit /\ commit(j) =< n.prog[j].match
             /\ told(j).match = n.prog[j].match
  <2>1. n.prog[j].match \in Nat /\ n.commit \in Nat /\ n.prog[j] \in Progress
    BY ProgType DEF NodeState
  <2>2. commit(j) =< n.commit /\ commit(j) =< n.prog[j].match
    BY <2>1, MinPair
  <2>3. told(j).match = n.prog[j].match
    <3> HIDE DEF commit
    <3> QED
      BY <2>1 DEF Progress
  <2> QED
    BY <2>2, <2>3
<1> HIDE DEF o, commit, told
<1>3. \A j \in Node : o.prog[j].match = n.prog[j].match
  BY <1>1, <1>2
<1>4. \A m \in o.outbox \ n.outbox :
         /\ m.type = "MsgHeartbeat" /\ m.term = o.term
         /\ m.commit =< o.commit /\ m.commit =< o.prog[m.to].match
  BY <1>1, <1>2, <1>3
<1>5. Says(i, n, o) /\ NoAcks(n, o)
  BY <1>1, <1>4 DEF Says, NoAcks, Waits, IsAck, IsGrant
<1>6. Speaks(i, n, o)
  BY <1>1, <1>3, <1>5 DEF Speaks, Heard
<1>7. o.commit >= n.commit
  BY <1>1, SameCommit
<1> QED
  BY <1>5, <1>6, <1>7 DEF CommitStep, o

-----------------------------------------------------------------------------
(***************************************************************************)
(* What a leader does with an answer.                                      *)
(***************************************************************************)

\* MsgAppResp with Reject
LEMMA StepAppRejectTells ==
    ASSUME NEW i \in Node, NEW n \in NodeState, NEW m \in AppRespMsg
    PROVE  Tells(n, StepAppReject(i, n, m))
<1> DEFINE j == m.from
           hint == IF m.logTerm > 0 THEN FindConflictByTerm(n.log, m.rejectHint, m.logTerm)
                   ELSE m.rejectHint
           decr == DecrTo(n.prog[j], m.index, hint)
           probe == IF decr.state = "Replicate" THEN BecomeProbe(decr) ELSE decr
           backed == [n EXCEPT !.prog[j] = probe]
           o == MaybeSendAppend(i, backed, {j}, TRUE)
<1>1. j \in Node /\ m.index \in Nat /\ m.rejectHint \in Nat /\ m.logTerm \in Nat
  BY DEF AppRespMsg
<1>2. hint \in Nat
  BY <1>1, FindConflictType DEF NodeState
<1>3. decr \in Progress /\ decr.match = n.prog[j].match
  <2> HIDE DEF hint
  <2>1. n.prog[j] \in Progress
    BY <1>1, ProgType
  <2>2. decr \in Progress
    BY <1>1, <1>2, <2>1, DecrToType
  <2>3. decr.match = n.prog[j].match
    BY <2>1, MatchKept
  <2> QED
    BY <2>2, <2>3
<1>4. probe \in Progress /\ probe.match = n.prog[j].match
  <2> HIDE DEF decr
  <2> QED
    BY <1>3, MatchKept, BecomeProbeType
<1>5. backed \in NodeState /\ Tells(n, backed)
  <2> HIDE DEF probe, j
  <2> QED
    BY <1>1, <1>4, SetProgType, SetProgTells
<1>6. Tells(backed, o)
  <2> HIDE DEF backed
  <2> QED
    BY <1>1, <1>5, MaybeSendAppendTells
<1>7. Tells(n, o) /\ Tells(n, n)
  <2> HIDE DEF backed, o
  <2> QED
    BY <1>5, <1>6, TellsTrans, SelfTells
<1>8. StepAppReject(i, n, m) \in {n, o}
  BY DEF StepAppReject
<1> HIDE DEF o
<1> QED
  BY <1>7, <1>8

\* The last index that a quorum has acknowledged
LEMMA QuorumIndexHas ==
    ASSUME NEW n \in NodeState, NEW i \in Node
    PROVE  /\ QuorumIndex(n) \in 0..LastIndex(n)
           /\ {j \in Node : n.prog[j].match >= QuorumIndex(n)} \in Quorum
<1> DEFINE S == {k \in 0..LastIndex(n) : {j \in Node : n.prog[j].match >= k} \in Quorum}
<1>1. LastIndex(n) \in Nat
  BY LastIndexType
<1>2. \A j \in Node : n.prog[j].match >= 0
  BY DEF NodeState, Progress
<1>3. {j \in Node : n.prog[j].match >= 0} = Node
  BY <1>2
<1>4. 0 \in S
  <2>1. 0 \in 0..LastIndex(n)
    BY <1>1
  <2>2. {j \in Node : n.prog[j].match >= 0} \in Quorum
    BY <1>3, AllAreQuorum
  <2> QED
    BY <2>1, <2>2
<1>5. Max(S) \in S
  <2>1. S \in SUBSET (0..LastIndex(n)) /\ S # {}
    BY <1>4
  <2> HIDE DEF S
  <2> QED
    BY <1>1, <2>1, MaxIn
<1>6. QuorumIndex(n) = Max(S)
  BY DEF QuorumIndex
<1> HIDE DEF QuorumIndex
<1> QED
  BY <1>5, <1>6

\* maybeCommit
LEMMA CanCommitOwn ==
    ASSUME NEW i \in Node, NEW n \in NodeState, n.state = "Leader", CanCommit(n)
    PROVE  LET c == [n EXCEPT !.commit = QuorumIndex(n)]
           IN  /\ c \in NodeState /\ CommitsOwn(c) /\ c.commit >= n.commit
               /\ c.log = n.log /\ c.term = n.term /\ c.state = n.state /\ c.self = n.self
               /\ c.steps = n.steps /\ c.outbox = n.outbox /\ c.prog = n.prog
<1> DEFINE c == [n EXCEPT !.commit = QuorumIndex(n)]
           q == QuorumIndex(n)
<1>0. n.commit \in Nat /\ Len(n.log) \in Nat /\ q > n.commit /\ MatchTerm(n.log, q, n.term)
  BY DEF CanCommit, NodeState
<1>a. q \in 0..Len(n.log) /\ {j \in Node : n.prog[j].match >= q} \in Quorum
  BY QuorumIndexHas DEF LastIndex
<1> HIDE DEF q
<1>1. /\ q \in 0..Len(n.log) /\ q > n.commit /\ TermAt(n.log, q) = n.term
      /\ {j \in Node : n.prog[j].match >= q} \in Quorum
      /\ n.commit \in Nat /\ Len(n.log) \in Nat /\ q \in Nat
  BY <1>0, <1>a DEF MatchTerm
<1>2. q \in 1..Len(n.log) /\ n.log[q].term = n.term
  BY <1>1 DEF TermAt
<1>3. c = [n EXCEPT !.commit = q]
  BY DEF q
<1>4. /\ c \in NodeState /\ c.commit = q
      /\ c.log = n.log /\ c.term = n.term /\ c.state = n.state /\ c.self = n.self
      /\ c.steps = n.steps /\ c.outbox = n.outbox /\ c.prog = n.prog
  <2> HIDE DEF c
  <2> QED
    BY <1>1, <1>3 DEF NodeState
<1> HIDE DEF c
<1>5. CommitsOwn(c) /\ c.commit >= n.commit
  BY <1>1, <1>2, <1>4 DEF CommitsOwn
<1> QED
  BY <1>4, <1>5 DEF c

\* maybeCommit and what is sent after it
LEMMA CommitAndSendTells ==
    ASSUME NEW i \in Node, NEW n \in NodeState, NEW j \in Node, n.state = "Leader"
    PROVE  \E c \in NodeState :
              /\ c.log = n.log /\ c.term = n.term /\ c.state = n.state /\ c.self = n.self
              /\ c.steps = n.steps /\ c.outbox = n.outbox /\ c.prog = n.prog
              /\ c.commit = n.commit \/ (CommitsOwn(c) /\ c.commit >= n.commit)
              /\ Tells(c, CommitAndSend(i, n, j))
<1> DEFINE c == [n EXCEPT !.commit = QuorumIndex(n)]
           sent == CASE CanCommit(n) -> BcastAppend(i, c)
                     [] ~CanCommit(n) /\ j # i /\ CanBumpCommit(n.prog[j], n.commit) ->
                          MaybeSendAppend(i, n, {j}, TRUE)
                     [] OTHER -> n
           o == CommitAndSend(i, n, j)
<1>1. o = IF j = i THEN sent ELSE SendRest(i, sent, j)
  BY DEF CommitAndSend
<1>2. ASSUME NEW d \in NodeState, sent \in NodeState, Tells(d, sent)
      PROVE  Tells(d, o)
  <2> HIDE DEF sent, o
  <2>1. Tells(sent, SendRest(i, sent, j))
    BY <1>2, SendRestTells
  <2>2. Tells(d, SendRest(i, sent, j))
    BY <1>2, <2>1, TellsTrans
  <2> QED
    BY <1>1, <1>2, <2>2
<1> HIDE DEF o
<1>3. CASE CanCommit(n)
  <2>1. /\ c \in NodeState /\ CommitsOwn(c) /\ c.commit >= n.commit
        /\ c.log = n.log /\ c.term = n.term /\ c.state = n.state /\ c.self = n.self
        /\ c.steps = n.steps /\ c.outbox = n.outbox /\ c.prog = n.prog
    BY <1>3, CanCommitOwn
  <2> HIDE DEF c
  <2>2. sent = BcastAppend(i, c)
    BY <1>3
  <2>3. sent \in NodeState /\ Tells(c, sent)
    BY <2>1, <2>2, BcastAppendType, BcastAppendTells
  <2> HIDE DEF sent
  <2>4. Tells(c, o)
    BY <1>2, <2>1, <2>3
  <2> QED
    BY <2>1, <2>4 DEF o
<1>4. CASE ~CanCommit(n)
  <2>1. sent \in {n, MaybeSendAppend(i, n, {j}, TRUE)}
    BY <1>4
  <2>2. /\ n \in NodeState /\ Tells(n, n)
        /\ MaybeSendAppend(i, n, {j}, TRUE) \in NodeState
        /\ Tells(n, MaybeSendAppend(i, n, {j}, TRUE))
    BY SelfTells, MaybeSendAppendType, MaybeSendAppendTells
  <2> HIDE DEF sent
  <2>3. Tells(n, o)
    BY <1>2, <2>1, <2>2
  <2> QED
    BY <2>3 DEF o
<1> QED
  BY <1>3, <1>4

\* MsgAppResp without Reject
LEMMA StepAppAcceptStep ==
    ASSUME NEW i \in Node, NEW n \in NodeState, NEW m \in AppRespMsg, n.state = "Leader",
           m.term = n.term, ~m.reject, Told(i, m)
    PROVE  CommitStep(i, n, StepAppAccept(i, n, m))
<1> DEFINE j == m.from
           pr == n.prog[j]
           upd == MaybeUpdate(pr, m.index)
           next == IF upd.state = "Probe" THEN BecomeReplicate(upd) ELSE upd
           g == [n EXCEPT !.prog[j] = next]
           d == CommitAndSend(i, g, j)
           o == Send(d, {Simple("MsgTimeoutNow", i, n, j)})
<1>1. j \in Node /\ m.index \in Nat /\ m.type = "MsgAppResp" /\ m \in Message
  BY DEF AppRespMsg, Message
<1>2. pr \in Progress /\ pr.match \in Nat
  BY <1>1, ProgType
<1>3. upd \in Progress /\ upd.match = IF m.index =< pr.match THEN pr.match ELSE m.index
  <2> HIDE DEF pr
  <2> QED
    BY <1>1, <1>2, MaybeUpdateType, MatchKept
<1>4. next \in Progress /\ next.match = upd.match
  <2> HIDE DEF upd
  <2> QED
    BY <1>3, BecomeReplicateType, MatchKept
<1> HIDE DEF next
<1>5. g \in NodeState
  <2> HIDE DEF j
  <2> QED
    BY <1>1, <1>4, SetProgType
<1>6. /\ g.log = n.log /\ g.term = n.term /\ g.state = n.state /\ g.self = n.self
      /\ g.outbox = n.outbox /\ g.commit = n.commit
      /\ g.prog[j] = next /\ \A k \in Node \ {j} : g.prog[k] = n.prog[k]
  <2> HIDE DEF j
  <2> QED
    BY <1>1 DEF NodeState
<1> HIDE DEF g
<1>7. ASSUME NEW k \in Node
      PROVE  \/ g.prog[k].match = n.prog[k].match
             \/ k = j /\ g.prog[k].match = m.index /\ m.index > 0
  <2>1. CASE k # j
    BY <1>6, <2>1
  <2>2. CASE k = j
    <3>1. CASE m.index =< pr.match
      BY <1>3, <1>4, <1>6, <2>2, <3>1
    <3>2. CASE ~(m.index =< pr.match)
      <4>1. m.index > 0
        BY <1>1, <1>2, <3>2
      <4> QED
        BY <1>3, <1>4, <1>6, <2>2, <3>2, <4>1
    <3> QED
      BY <3>1, <3>2
  <2> QED
    BY <2>1, <2>2
<1>8. PICK c \in NodeState :
         /\ c.log = g.log /\ c.term = g.term /\ c.state = g.state /\ c.self = g.self
         /\ c.outbox = g.outbox /\ c.prog = g.prog
         /\ c.commit = g.commit \/ (CommitsOwn(c) /\ c.commit >= g.commit)
         /\ Tells(c, d)
  BY <1>1, <1>5, <1>6, CommitAndSendTells
<1>9. ASSUME NEW x \in NodeState, Tells(c, x)
      PROVE  CommitStep(i, n, x)
  <2>1. Says(i, c, x) /\ NoAcks(c, x)
    BY <1>6, <1>8, <1>9, TellsSays, TellsNoAcks
  <2>2. c.log = n.log /\ c.outbox = n.outbox /\ c.self = n.self
    BY <1>6, <1>8
  <2>3. Says(i, n, x)
    <3>1. \A a, b : IsUpToDate(c, a, b) <=> IsUpToDate(n, a, b)
      BY <2>2 DEF IsUpToDate, LastTerm, LastIndex
    <3> QED
      BY <2>1, <2>2, <3>1 DEF Says
  <2>4. NoAcks(n, x)
    BY <2>1, <2>2 DEF NoAcks, Waits
  <2>5. x.log = n.log /\ x.term = n.term /\ x.state = "Leader"
        /\ \A k \in Node : x.prog[k].match = g.prog[k].match
    BY <1>6, <1>8, <1>9 DEF Tells
  <2>6. \A k \in Node : Heard(i, n, x, k)
    <3> SUFFICES ASSUME NEW k \in Node
                 PROVE  Heard(i, n, x, k)
      OBVIOUS
    <3>1. CASE g.prog[k].match = n.prog[k].match
      BY <2>5, <3>1 DEF Heard
    <3>2. CASE k = j /\ g.prog[k].match = m.index /\ m.index > 0
      <4>1. IsAck(m)
        BY <1>1, <3>2 DEF IsAck
      <4> QED
        BY <1>1, <2>5, <3>2, <4>1 DEF Heard
    <3> QED
      BY <1>7, <3>1, <3>2
  <2>7. x.commit = n.commit \/ CommitsOwn(x)
    <3>1. CASE c.commit = g.commit
      BY <1>6, <1>9, <3>1 DEF Tells
    <3>2. CASE CommitsOwn(c)
      <4>1. {k \in Node : c.prog[k].match >= c.commit} = {k \in Node : x.prog[k].match >= x.commit}
        BY <1>9 DEF Tells
      <4> QED
        BY <1>9, <3>2, <4>1 DEF Tells, CommitsOwn
    <3> QED
      BY <1>8, <3>1, <3>2
  <2>8. Speaks(i, n, x)
    BY <2>4, <2>5, <2>6, <2>7 DEF Speaks
  <2>9. x.commit >= n.commit
    <3>1. x.commit = c.commit /\ g.commit = n.commit
      BY <1>6, <1>9 DEF Tells
    <3>2. c.commit >= g.commit
      BY <1>5, <1>8, SameCommit
    <3> QED
      BY <3>1, <3>2
  <2> QED
    BY <2>3, <2>8, <2>9 DEF CommitStep
<1>10. d \in NodeState
  BY <1>1, <1>5, <1>6, CommitAndSendType
<1>11. o \in NodeState /\ Tells(d, o)
  <2>1. Simple("MsgTimeoutNow", i, n, j) \in Message
        /\ Simple("MsgTimeoutNow", i, n, j).type = "MsgTimeoutNow"
    BY <1>1 DEF Simple, Message, SimpleMsg, NodeState
  <2> HIDE DEF d
  <2> QED
    BY <1>10, <2>1, SendType, SendTells
<1>12. Tells(c, o)
  <2> HIDE DEF d, o
  <2> QED
    BY <1>8, <1>11, TellsTrans
<1>13. CommitStep(i, n, d) /\ CommitStep(i, n, o)
  <2> HIDE DEF d, o
  <2> QED
    BY <1>8, <1>9, <1>10, <1>11, <1>12
<1>14. CommitStep(i, n, n)
  BY FollowsSpeaks DEF Follows
<1>15. StepAppAccept(i, n, m) \in {n, o, d}
  BY DEF StepAppAccept, g, next
<1> HIDE DEF d, o
<1> QED
  BY <1>13, <1>14, <1>15

\* MsgAppResp
LEMMA StepAppRespStep ==
    ASSUME NEW i \in Node, NEW n \in NodeState, NEW m \in AppRespMsg,
           n.state = "Leader" => m.term = n.term, Told(i, m)
    PROVE  CommitStep(i, n, StepAppResp(i, n, m))
<1>1. CommitStep(i, n, n)
  BY FollowsSpeaks DEF Follows
<1>2. n.state = "Leader" /\ m.reject => CommitStep(i, n, StepAppReject(i, n, m))
  BY StepAppRejectTells, StepAppRejectType, TellsSpeaks
<1>3. n.state = "Leader" /\ ~m.reject => CommitStep(i, n, StepAppAccept(i, n, m))
  BY StepAppAcceptStep
<1> QED
  BY <1>1, <1>2, <1>3 DEF StepAppResp

\* MsgHeartbeatResp
LEMMA StepHeartbeatRespStep ==
    ASSUME NEW i \in Node, NEW n \in NodeState, NEW m \in Message, n.state = "Leader"
    PROVE  CommitStep(i, n, StepHeartbeatResp(i, n, m))
<1> DEFINE pr == [n.prog[m.from] EXCEPT !.paused = FALSE]
           r == [n EXCEPT !.prog[m.from] = pr]
           o == MaybeSendAppend(i, r, {m.from}, TRUE)
<1>1. m.from \in Node
  BY MessageEnds
<1>2. pr \in Progress /\ pr.match = n.prog[m.from].match
  BY <1>1, ProgType, UnpausedType
<1>3. r \in NodeState /\ Tells(n, r)
  <2> HIDE DEF pr
  <2> QED
    BY <1>1, <1>2, SetProgType, SetProgTells
<1>4. o \in NodeState /\ Tells(n, o)
  <2> HIDE DEF r
  <2> QED
    BY <1>1, <1>3, MaybeSendAppendType, MaybeSendAppendTells, TellsTrans
<1>5. StepHeartbeatResp(i, n, m) \in {r, o}
  BY DEF StepHeartbeatResp
<1> HIDE DEF r, o
<1> QED
  BY <1>3, <1>4, <1>5, TellsSpeaks

-----------------------------------------------------------------------------
(***************************************************************************)
(* What a node does in any role.                                           *)
(***************************************************************************)

\* Messages that neither acknowledge, nor grant, nor tell of a log or a commit index
LEMMA SendSpeaks ==
    ASSUME NEW i \in Node, NEW n \in NodeState, NEW ms \in SUBSET Message,
           \A m \in ms : /\ m.type \notin {"MsgApp", "MsgHeartbeat", "MsgVote"}
                         /\ ~IsGrant(m) /\ ~IsAck(m)
    PROVE  CommitStep(i, n, Send(n, ms))
<1> DEFINE o == Send(n, ms)
<1>1. /\ o.log = n.log /\ o.commit = n.commit /\ o.term = n.term /\ o.state = n.state
      /\ o.self = n.self /\ o.prog = n.prog /\ o.outbox = n.outbox \cup ms
  BY DEF Send, NodeState
<1> HIDE DEF o
<1>2. Says(i, n, o) /\ NoAcks(n, o)
  BY <1>1 DEF Says, NoAcks, Waits
<1>3. Speaks(i, n, o)
  BY <1>1, <1>2 DEF Speaks, Heard
<1>4. o.commit >= n.commit
  BY <1>1, SameCommit
<1> QED
  BY <1>2, <1>3, <1>4 DEF CommitStep, o

\* A change of a field that does not matter here
LEMMA SetFollows ==
    ASSUME NEW n \in NodeState, NEW x
    PROVE  /\ Follows(n, n) /\ Follows(n, [n EXCEPT !.lead = x])
           /\ Follows(n, [n EXCEPT !.transferee = x])
           /\ Follows(n, [n EXCEPT !.steps = x])
  BY DEF Follows, NodeState

\* becomeFollower, the first switch of Step, and following a sender
LEMMA BecomeFollowerFollows ==
    ASSUME NEW i \in Node, NEW n \in NodeState, NEW t, NEW lead
    PROVE  /\ Follows(n, BecomeFollower(i, n, t, lead))
           /\ BecomeFollower(i, n, t, lead).state = "Follower"
  BY DEF Follows, BecomeFollower, Reset, NodeState

LEMMA AtTermOfFollows ==
    ASSUME NEW i \in Node, NEW n \in NodeState, NEW m
    PROVE  Follows(n, AtTermOf(i, n, m))
  BY SetFollows, BecomeFollowerFollows DEF AtTermOf

LEMMA FollowSenderFollows ==
    ASSUME NEW i \in Node, NEW n \in NodeState, NEW m
    PROVE  Follows(n, FollowSender(i, n, m)) /\ FollowSender(i, n, m).state = "Follower"
<1>1. Follows(n, [n EXCEPT !.lead = m.from]) /\ [n EXCEPT !.lead = m.from].state = n.state
  BY SetFollows DEF NodeState
<1> QED
  BY <1>1, BecomeFollowerFollows DEF FollowSender

\* MsgTransferLeader
LEMMA StepTransferLeaderCommit ==
    ASSUME NEW i \in Node, NEW n \in NodeState, NEW to \in Node
    PROVE  CommitStep(i, n, StepTransferLeader(i, n, to))
<1> DEFINE r == [n EXCEPT !.transferee = to]
           a == [n EXCEPT !.transferee = None]
           p == [type |-> "MsgTransferLeader", from |-> to, to |-> n.lead, term |-> n.term]
           t == Simple("MsgTimeoutNow", i, n, to)
           now == Send(r, {t})
           catchUp == MaybeSendAppend(i, r, {to}, TRUE)
<1>1. r \in NodeState /\ a \in NodeState /\ r.state = n.state
  BY DEF NodeState
<1>2. Follows(n, r) /\ Follows(n, a) /\ Follows(n, n)
  BY SetFollows
<1>3. CommitStep(i, n, n) /\ CommitStep(i, n, a)
  <2> HIDE DEF a
  <2> QED
    BY <1>1, <1>2, FollowsSpeaks
<1>4. ASSUME n.lead # None
      PROVE  CommitStep(i, n, Send(n, {p}))
  <2>1. n.lead \in Node /\ n.term \in Nat
    BY <1>4 DEF NodeState
  <2>2. p \in Message /\ p.type = "MsgTransferLeader"
    BY <2>1 DEF Message, SimpleMsg
  <2> HIDE DEF p
  <2> QED
    BY <2>2, SendSpeaks DEF IsGrant, IsAck
<1>5. CommitStep(i, n, now)
  <2>1. t \in Message /\ t.type = "MsgTimeoutNow"
    BY DEF Simple, Message, SimpleMsg, NodeState
  <2> HIDE DEF r, t
  <2>2. CommitStep(i, r, now) /\ now \in NodeState
    BY <1>1, <2>1, SendSpeaks, SendType DEF IsGrant, IsAck
  <2> HIDE DEF now
  <2> QED
    BY <1>1, <1>2, <2>2, FollowsThen
<1>6. ASSUME n.state = "Leader"
      PROVE  CommitStep(i, n, catchUp)
  <2> HIDE DEF r
  <2>1. catchUp \in NodeState /\ Tells(r, catchUp)
    BY <1>1, MaybeSendAppendType, MaybeSendAppendTells
  <2> HIDE DEF catchUp
  <2>2. CommitStep(i, r, catchUp)
    BY <1>1, <1>6, <2>1, TellsSpeaks
  <2> QED
    BY <1>1, <1>2, <2>1, <2>2, FollowsThen
<1>7. \/ StepTransferLeader(i, n, to) \in {n, a, now}
      \/ StepTransferLeader(i, n, to) = catchUp /\ n.state = "Leader"
      \/ StepTransferLeader(i, n, to) = Send(n, {p}) /\ n.lead # None
  <2>1. StepTransferLeader(i, n, to) =
          CASE n.state = "Leader" /\ n.transferee # to /\ to = i -> a
            [] n.state = "Leader" /\ n.transferee # to /\ to # i ->
                 IF n.prog[to].match = LastIndex(n) THEN now ELSE catchUp
            [] n.state = "Follower" /\ n.lead # None -> Send(n, {p})
            [] OTHER -> n
    BY DEF StepTransferLeader
  <2> HIDE DEF a, now, catchUp, p
  <2> QED
    BY <2>1
<1> HIDE DEF a, now, catchUp, p
<1> QED
  BY <1>3, <1>4, <1>5, <1>6, <1>7

\* A message of a lower term: the answer has index 0 and acknowledges nothing
LEMMA StepLowerTermCommit ==
    ASSUME NEW i \in Node, NEW n \in NodeState, NEW m \in Message
    PROVE  CommitStep(i, n, StepLowerTerm(i, n, m))
<1> DEFINE r == AppResp(i, n, m.from, 0)
           v == VoteResp("MsgPreVoteResp", i, m.from, n.term, TRUE)
<1>1. m.from \in Node /\ n.term \in Nat
  BY MessageFields DEF NodeState
<1>2. r \in Message /\ v \in Message
  BY <1>1, AppRespType, VoteRespType DEF Message
<1>3. r.type = "MsgAppResp" /\ r.index = 0 /\ v.type = "MsgPreVoteResp"
  BY DEF AppResp, VoteResp
<1>4. StepLowerTerm(i, n, m) \in {n, Send(n, {r}), Send(n, {v})}
  BY DEF StepLowerTerm
<1>5. CommitStep(i, n, n)
  BY SetFollows, FollowsSpeaks
<1> HIDE DEF r, v
<1>6. CommitStep(i, n, Send(n, {r})) /\ CommitStep(i, n, Send(n, {v}))
  BY <1>2, <1>3, SendSpeaks DEF IsGrant, IsAck
<1> QED
  BY <1>4, <1>5, <1>6

\* A request for a vote: it is granted to who is up to date
LEMMA StepVoteCommit ==
    ASSUME NEW i \in Node, NEW n \in NodeState, NEW m \in msgs, m \in Message,
           m.type \in {"MsgVote", "MsgPreVote"}
    PROVE  CommitStep(i, n, StepVote(i, n, m))
<1> DEFINE pre == m.type = "MsgPreVote"
           type == IF pre THEN "MsgPreVoteResp" ELSE "MsgVoteResp"
           yes == VoteResp(type, i, m.from, m.term, FALSE)
           no == VoteResp(type, i, m.from, n.term, TRUE)
           s == Send(n, {yes})
           o == [s EXCEPT !.vote = IF pre THEN @ ELSE m.from]
           d == Send(n, {no})
<1>1. /\ yes.type = type /\ yes.to = m.from /\ yes.term = m.term
      /\ no.type = type /\ no.reject /\ ~yes.reject
  BY DEF VoteResp
<1>2. no \in Message
  BY MessageFields, VoteRespType DEF Message, NodeState
<1>3. CommitStep(i, n, d)
  <2> HIDE DEF no
  <2>1. no.type \in {"MsgPreVoteResp", "MsgVoteResp"}
    BY <1>1
  <2> QED
    BY <1>1, <1>2, <2>1, SendSpeaks DEF IsGrant, IsAck
<1>4. ASSUME IsUpToDate(n, m.index, m.logTerm)
      PROVE  CommitStep(i, n, o)
  <2>1. /\ o.log = n.log /\ o.self = n.self /\ o.commit = n.commit /\ o.prog = n.prog
        /\ o.term = n.term /\ o.state = n.state /\ o.outbox = n.outbox \cup {yes}
    <3> HIDE DEF yes, pre
    <3> QED
      BY DEF Send, NodeState
  <2>2. IsGrant(yes) => m.type = "MsgVote"
    BY <1>1 DEF IsGrant
  <2>3. yes.type \in {"MsgPreVoteResp", "MsgVoteResp"}
    BY <1>1
  <2> HIDE DEF o, yes
  <2>4. Says(i, n, o)
    BY <1>1, <1>4, <2>1, <2>2, <2>3 DEF Says
  <2>5. NoAcks(n, o)
    BY <2>1, <2>3 DEF NoAcks, Waits, IsAck
  <2>6. Speaks(i, n, o)
    BY <2>1, <2>5 DEF Speaks, Heard
  <2>7. o.commit >= n.commit
    BY <2>1, SameCommit
  <2> QED
    BY <2>4, <2>6, <2>7 DEF CommitStep
<1>5. \/ StepVote(i, n, m) = d
      \/ StepVote(i, n, m) = o /\ IsUpToDate(n, m.index, m.logTerm)
  BY DEF StepVote
<1> HIDE DEF o, d
<1> QED
  BY <1>3, <1>4, <1>5

LEMMA FollowSenderTerm ==
    ASSUME NEW i \in Node, NEW n \in NodeState, NEW m, m.term = n.term
    PROVE  FollowSender(i, n, m).term = n.term
  BY DEF FollowSender, BecomeFollower, Reset, NodeState

\* MsgHeartbeat
LEMMA StepHeartbeatCommit ==
    ASSUME NEW i \in Node, NEW n \in NodeState, NEW m \in msgs, m \in Message,
           m.type = "MsgHeartbeat", m.to = i, m.term = n.term
    PROVE  CommitStep(i, n, StepHeartbeat(i, n, m))
<1> DEFINE f == FollowSender(i, n, m)
           c == CommitTo(f, m.commit)
           r == HeartbeatResp(i, n, m)
           o == Send(c, {r})
<1>1. m.from \in Node /\ m.commit \in Nat /\ m.ctx \in Nat
  BY MessageFields DEF HeartbeatMsg
<1>2. f \in NodeState /\ Follows(n, f) /\ f.state = "Follower" /\ f.term = n.term
  BY <1>1, FollowSenderType, FollowSenderFollows, FollowSenderTerm
<1>3. r \in Message /\ r.type = "MsgHeartbeatResp"
  BY <1>1 DEF HeartbeatResp, Message, HeartbeatRespMsg, NodeState
<1> HIDE DEF f, r
<1>4. c \in NodeState
  BY <1>1, <1>2, CommitToType
<1>5. /\ o.log = f.log /\ o.self = f.self /\ o.outbox = f.outbox \cup {r}
      /\ o.term = f.term /\ o.state = f.state /\ o.commit = Max({f.commit, m.commit})
  BY <1>2 DEF CommitTo, Send, NodeState
<1>6. /\ o.commit = f.commit \/ (o.commit = m.commit /\ m.commit > 0)
      /\ o.commit >= f.commit
  <2>1. f.commit \in Nat
    BY <1>2 DEF NodeState
  <2>2. Max({f.commit, m.commit}) = IF f.commit >= m.commit THEN f.commit ELSE m.commit
    BY <1>1, <2>1, MaxPair
  <2> QED
    BY <1>1, <1>5, <2>1, <2>2
<1>7. o \in NodeState
  <2> HIDE DEF c
  <2> QED
    BY <1>3, <1>4, SendType
<1> HIDE DEF o
<1>8. Says(i, f, o) /\ NoAcks(f, o)
  BY <1>3, <1>5 DEF Says, NoAcks, Waits, IsAck, IsGrant
<1>9. Speaks(i, f, o) \/ Beats(i, f, o)
  BY <1>2, <1>5, <1>6, <1>8 DEF Speaks, Beats
<1>10. CommitStep(i, n, o)
  <2>1. CommitStep(i, f, o)
    BY <1>6, <1>8, <1>9 DEF CommitStep
  <2> QED
    BY <1>2, <1>7, <2>1, FollowsThen
<1>11. CommitStep(i, n, n)
  BY SetFollows, FollowsSpeaks
<1>12. StepHeartbeat(i, n, m) \in {n, o}
  BY DEF StepHeartbeat, o, f, r
<1> QED
  BY <1>10, <1>11, <1>12

\* handleAppendEntries
LEMMA HandleAppendCommit ==
    ASSUME NEW i \in Node, NEW f \in NodeState, NEW m \in msgs, m \in AppMsg,
           m.term = f.term, f.state = "Follower"
    PROVE  CommitStep(i, f, HandleAppendEntries(i, f, m))
<1> DEFINE last == m.index + Len(m.entries)
           hint == FindConflictByTerm(f.log, Min({m.index, LastIndex(f)}), m.logTerm)
           w == AppendAfter(f.log, m.index, m.entries)
           a == [f EXCEPT !.log = w]
           c == CommitTo(a, Min({m.commit, last}))
           has == AppResp(i, f, m.from, f.commit)
           yes == AppResp(i, f, m.from, last)
           no == AppReject(i, f, m.from, m.index, hint, TermAt(f.log, hint))
           o == HandleAppendEntries(i, f, m)
<1>1. /\ m.from \in Node /\ m.index \in Nat /\ m.commit \in Nat /\ m.logTerm \in Nat
      /\ Len(m.entries) \in Nat /\ last \in Nat /\ f.commit \in Nat /\ m.type = "MsgApp"
  BY DEF AppMsg, NodeState
<1>2. /\ has.type = "MsgAppResp" /\ has.from = i /\ has.term = f.term /\ has.index = f.commit
      /\ yes.type = "MsgAppResp" /\ yes.from = i /\ yes.term = f.term /\ yes.index = last
      /\ no.type = "MsgAppResp" /\ no.reject
  BY DEF AppResp, AppReject
<1>3. /\ c.log = w /\ c.self = f.self /\ c.outbox = f.outbox /\ c.term = f.term
      /\ c.state = f.state /\ c.commit = Max({f.commit, Min({m.commit, last})})
  <2> HIDE DEF w, last
  <2> QED
    BY DEF CommitTo, NodeState
<1>4. /\ Min({m.commit, last}) \in Nat
      /\ Min({m.commit, last}) =< m.commit /\ Min({m.commit, last}) =< last
  <2> HIDE DEF last
  <2> QED
    BY <1>1, MinPair
<1>5. /\ c.commit = f.commit \/ (c.commit =< m.commit /\ c.commit =< last)
      /\ c.commit >= f.commit /\ f.commit >= f.commit
  <2> HIDE DEF last
  <2>1. Max({f.commit, Min({m.commit, last})}) =
          IF f.commit >= Min({m.commit, last}) THEN f.commit ELSE Min({m.commit, last})
    BY <1>1, <1>4, MaxPair
  <2> QED
    BY <1>1, <1>3, <1>4, <2>1
<1>6. \/ m.index < f.commit /\ o = Send(f, {has})
      \/ MatchTerm(f.log, m.index, m.logTerm) /\ o = Send(c, {yes})
      \/ o = Send(f, {no})
  <2>1. o = CASE m.index < f.commit -> Send(f, {has})
              [] m.index >= f.commit /\ MatchTerm(f.log, m.index, m.logTerm) -> Send(c, {yes})
              [] OTHER -> Send(f, {no})
    BY DEF HandleAppendEntries
  <2> HIDE DEF c, has, yes, no, o
  <2> QED
    BY <1>1, <2>1
<1> HIDE DEF has, yes, no
<1>7. ASSUME NEW b, NEW x, b \in {f, c}, x.type = "MsgAppResp",
             o = Send(b, {x})
      PROVE  /\ o.log = b.log /\ o.self = f.self /\ o.outbox = f.outbox \cup {x}
             /\ o.term = f.term /\ o.state = "Follower" /\ o.commit = b.commit
             /\ Says(i, f, o)
             /\ \A z \in Message : Waits(o, z) => Waits(f, z) \/ (z = x /\ IsAck(x))
  <2>1. /\ o.log = b.log /\ o.self = b.self /\ o.outbox = b.outbox \cup {x}
        /\ o.term = b.term /\ o.state = b.state /\ o.commit = b.commit
    <3>1. c = [a EXCEPT !.commit = Max({a.commit, Min({m.commit, last})})]
      BY DEF CommitTo, NodeState
    <3> HIDE DEF c, o
    <3> QED
      BY <1>7, <3>1 DEF Send, NodeState
  <2> HIDE DEF c, o
  <2>2. b.self = f.self /\ b.outbox = f.outbox /\ b.term = f.term /\ b.state = f.state
    BY <1>3, <1>7
  <2>3. Says(i, f, o)
    BY <1>7, <2>1, <2>2 DEF Says, IsGrant
  <2>4. \A z \in Message : Waits(o, z) => Waits(f, z) \/ (z = x /\ IsAck(x))
    BY <2>1, <2>2 DEF Waits
  <2> QED
    BY <2>1, <2>2, <2>3, <2>4
<1> HIDE DEF o, c, last, w
<1>8. CASE m.index < f.commit /\ o = Send(f, {has})
  <2>1. /\ o.log = f.log /\ o.commit = f.commit /\ o.term = f.term /\ o.state = "Follower"
        /\ Says(i, f, o)
        /\ \A z \in Message : Waits(o, z) => Waits(f, z) \/ (z = has /\ IsAck(has))
    BY <1>2, <1>7, <1>8
  <2>2. AcksUpTo(i, f, o, f.commit)
    BY <1>2, <2>1 DEF AcksUpTo
  <2>3. Takes(i, f, o)
    BY <1>1, <2>1, <2>2 DEF Takes
  <2> QED
    BY <1>5, <2>1, <2>3 DEF CommitStep, o
<1>9. CASE MatchTerm(f.log, m.index, m.logTerm) /\ o = Send(c, {yes})
  <2>1. /\ o.log = c.log /\ o.commit = c.commit /\ o.term = f.term /\ o.state = "Follower"
        /\ Says(i, f, o)
        /\ \A z \in Message : Waits(o, z) => Waits(f, z) \/ (z = yes /\ IsAck(yes))
    BY <1>2, <1>7, <1>9
  <2>2. AcksUpTo(i, f, o, last)
    BY <1>2, <2>1 DEF AcksUpTo
  <2>3. o.log = w
    BY <1>3, <2>1
  <2>4. Takes(i, f, o)
    BY <1>1, <1>5, <1>9, <2>1, <2>2, <2>3 DEF Takes, last, w
  <2> QED
    BY <1>5, <2>1, <2>4 DEF CommitStep, o
<1>10. CASE o = Send(f, {no})
  <2>1. /\ o.log = f.log /\ o.commit = f.commit /\ o.state = "Follower"
        /\ Says(i, f, o)
        /\ \A z \in Message : Waits(o, z) => Waits(f, z) \/ (z = no /\ IsAck(no))
    BY <1>2, <1>7, <1>10
  <2>2. NoAcks(f, o)
    BY <1>2, <2>1 DEF NoAcks, IsAck
  <2>3. Speaks(i, f, o)
    BY <2>1, <2>2 DEF Speaks
  <2> QED
    BY <1>5, <2>1, <2>3 DEF CommitStep, o
<1> QED
  BY <1>6, <1>8, <1>9, <1>10

\* The entries of a MsgApp
LEMMA StepAppCommit ==
    ASSUME NEW i \in Node, NEW n \in NodeState, NEW m \in msgs, m \in Message,
           m.type = "MsgApp", m.term = n.term
    PROVE  CommitStep(i, n, StepApp(i, n, m))
<1> DEFINE f == FollowSender(i, n, m)
           o == HandleAppendEntries(i, f, m)
<1>1. m \in AppMsg /\ m.from \in Node
  BY MessageFields
<1>2. f \in NodeState /\ Follows(n, f) /\ f.state = "Follower" /\ f.term = n.term
  BY <1>1, FollowSenderType, FollowSenderFollows, FollowSenderTerm
<1> HIDE DEF f
<1>3. o \in NodeState /\ CommitStep(i, f, o)
  BY <1>1, <1>2, HandleAppendEntriesType, HandleAppendCommit
<1> HIDE DEF o
<1>4. CommitStep(i, n, o) /\ CommitStep(i, n, n)
  BY <1>2, <1>3, FollowsThen, SetFollows, FollowsSpeaks
<1>5. StepApp(i, n, m) \in {n, o}
  BY DEF StepApp, o, f
<1> QED
  BY <1>4, <1>5

-----------------------------------------------------------------------------
(***************************************************************************)
(* Entries are appended.                                                   *)
(***************************************************************************)

\* appendEntry
LEMMA AppendEntryAppends ==
    ASSUME NEW i \in Node, NEW n \in NodeState, NEW val \in Value \cup {Empty},
           n.state = "Leader"
    PROVE  LET o == AppendEntry(i, n, val)
           IN  /\ \E e \in Entry : e.term = o.term /\ o.log = Append(n.log, e)
               /\ AcksUpTo(i, n, o, Len(o.log))
               /\ o.state = "Leader" /\ o.term = n.term /\ o.commit = n.commit
               /\ o.prog = n.prog /\ o.outbox = n.outbox
<1> DEFINE e == [term |-> n.term, val |-> val]
           a == [n EXCEPT !.log = Append(@, e)]
           m == AppResp(i, a, i, LastIndex(a))
           o == AppendEntry(i, n, val)
<1>1. e \in Entry /\ e.term = n.term
  BY DEF NodeState, Entry
<1>2. o = SendSelf(a, m)
  BY DEF AppendEntry
<1>3. a.log = Append(n.log, e) /\ a.term = n.term
  <2> HIDE DEF e
  <2> QED
    BY DEF NodeState
<1>4. m.from = i /\ m.term = n.term /\ m.index = Len(a.log)
  BY <1>3 DEF AppResp, LastIndex
<1>5. /\ o.log = a.log /\ o.self = Append(n.self, m) /\ o.outbox = n.outbox
      /\ o.term = n.term /\ o.state = "Leader" /\ o.commit = n.commit /\ o.prog = n.prog
  <2> HIDE DEF e, m, o
  <2> QED
    BY <1>2 DEF SendSelf, NodeState
<1>6. n.self \in Seq(VoteRespMsg \cup AppRespMsg)
  BY DEF NodeState
<1> HIDE DEF e, a, m, o
<1>7. AcksUpTo(i, n, o, Len(o.log))
  <2> SUFFICES ASSUME NEW z \in Message, Waits(o, z), ~Waits(n, z)
               PROVE  z = m
    BY <1>4, <1>5 DEF AcksUpTo
  <2>1. PICK k \in 1..Len(o.self) : z = o.self[k]
    BY <1>5 DEF Waits
  <2>2. k \notin 1..Len(n.self) \/ o.self[k] # n.self[k]
    BY <2>1 DEF Waits
  <2> QED
    BY <1>5, <1>6, <2>1, <2>2
<1> QED
  BY <1>1, <1>3, <1>5, <1>7 DEF o

\* An appended entry is sent
LEMMA TellsAppends ==
    ASSUME NEW i \in Node, NEW n \in NodeState, NEW g \in NodeState, NEW o \in NodeState,
           Appends(i, n, g), g.outbox = n.outbox, Tells(g, o)
    PROVE  CommitStep(i, n, o)
<1>1. Says(i, g, o) /\ NoAcks(g, o)
  BY TellsSays, TellsNoAcks DEF Appends
<1>2. \A m \in o.outbox \ n.outbox :
          /\ m \in o.outbox \ g.outbox
          /\ m.type \notin {"MsgHeartbeat", "MsgVote", "MsgVoteResp"}
  BY DEF Tells
<1>3. Says(i, n, o)
  BY <1>1, <1>2 DEF Says, IsGrant
<1>4. /\ o.log = g.log /\ o.commit = g.commit /\ o.term = g.term /\ o.state = g.state
      /\ \A j \in Node : o.prog[j].match = g.prog[j].match
  BY DEF Tells
<1>5. AcksUpTo(i, n, o, Len(o.log))
  BY <1>1, <1>4 DEF Appends, AcksUpTo, NoAcks
<1>6. Appends(i, n, o)
  <2>1. /\ o.state = "Leader" /\ o.term = n.term /\ o.commit = n.commit
        /\ \E e \in Entry : e.term = o.term /\ o.log = Append(n.log, e)
    BY <1>4 DEF Appends
  <2>2. \/ n.state = "Leader" /\ \A j \in Node : o.prog[j].match = n.prog[j].match
        \/ /\ n.state = "Candidate"
           /\ \A j \in Node : o.prog[j].match = IF j = i THEN Len(n.log) ELSE 0
    BY <1>4 DEF Appends
  <2> QED
    BY <1>5, <2>1, <2>2 DEF Appends
<1>7. o.commit >= n.commit
  BY <1>6, SameCommit DEF Appends
<1> QED
  BY <1>3, <1>6, <1>7 DEF CommitStep

\* MsgProp
LEMMA StepPropCommit ==
    ASSUME NEW i \in Node, NEW n \in NodeState, NEW val \in Value
    PROVE  CommitStep(i, n, StepProp(i, n, val))
<1> DEFINE g == AppendEntry(i, n, val)
           o == BcastAppend(i, g)
           p == [type |-> "MsgProp", from |-> i, to |-> n.lead, term |-> 0, val |-> val]
<1>1. ASSUME n.state = "Leader"
      PROVE  CommitStep(i, n, o)
  <2>1. g \in NodeState /\ g.outbox = n.outbox
    BY <1>1, AppendEntryType, AppendEntryAppends
  <2>2. Appends(i, n, g)
    <3>1. /\ \E e \in Entry : e.term = g.term /\ g.log = Append(n.log, e)
          /\ AcksUpTo(i, n, g, Len(g.log))
          /\ g.state = "Leader" /\ g.term = n.term /\ g.commit = n.commit
          /\ g.prog = n.prog
      BY <1>1, AppendEntryAppends
    <3> HIDE DEF g
    <3> QED
      BY <1>1, <3>1 DEF Appends
  <2> HIDE DEF g
  <2>3. o \in NodeState /\ Tells(g, o)
    BY <2>1, BcastAppendType, BcastAppendTells
  <2> HIDE DEF o
  <2> QED
    BY <2>1, <2>2, <2>3, TellsAppends
<1>2. ASSUME n.lead # None
      PROVE  CommitStep(i, n, Send(n, {p}))
  <2>1. n.lead \in Node
    BY <1>2 DEF NodeState
  <2>2. p \in Message /\ p.type = "MsgProp"
    BY <2>1 DEF Message, PropMsg
  <2> HIDE DEF p
  <2> QED
    BY <2>2, SendSpeaks DEF IsGrant, IsAck
<1>3. CommitStep(i, n, n)
  BY SetFollows, FollowsSpeaks
<1>4. \/ StepProp(i, n, val) = n
      \/ StepProp(i, n, val) = o /\ n.state = "Leader"
      \/ StepProp(i, n, val) = Send(n, {p}) /\ n.lead # None
  <2>1. StepProp(i, n, val) =
          CASE n.state = "Leader" /\ n.transferee = None -> o
            [] n.state = "Follower" /\ n.lead # None -> Send(n, {p})
            [] OTHER -> n
    BY DEF StepProp
  <2> HIDE DEF o, p
  <2> QED
    BY <2>1
<1> HIDE DEF o, p
<1> QED
  BY <1>1, <1>2, <1>3, <1>4

\* A campaign: what is asked for tells of the candidate's log
LEMMA CampaignCommit ==
    ASSUME NEW i \in Node, NEW n \in NodeState, NEW pre \in BOOLEAN
    PROVE  CommitStep(i, n, Campaign(i, n, pre))
<1> DEFINE c == IF pre THEN BecomePreCandidate(n) ELSE BecomeCandidate(i, n)
           term == IF pre THEN c.term + 1 ELSE c.term
           request(j) == [type |-> IF pre THEN "MsgPreVote" ELSE "MsgVote", from |-> i,
                          to |-> j, term |-> term, index |-> LastIndex(c),
                          logTerm |-> LastTerm(c)]
           ms == {request(j) : j \in Node \ {i}}
           answer == VoteResp(IF pre THEN "MsgPreVoteResp" ELSE "MsgVoteResp", i, i, term,
                              FALSE)
           o == Campaign(i, n, pre)
<1>1. c \in NodeState
  BY BecomePreCandidateType, BecomeCandidateType
<1>2. /\ c.log = n.log /\ c.self = n.self /\ c.outbox = n.outbox /\ c.commit = n.commit
      /\ c.state \in {"PreCandidate", "Candidate"}
  BY DEF BecomePreCandidate, BecomeCandidate, Reset, NodeState
<1> HIDE DEF c
<1>3. o = SendSelf(Send(c, ms), answer)
  BY DEF Campaign, SendCampaign, c
<1>4. /\ o.log = c.log /\ o.state = c.state /\ o.commit = c.commit
      /\ o.outbox = c.outbox \cup ms /\ o.self = Append(c.self, answer)
  <2> HIDE DEF ms, answer, o
  <2> QED
    BY <1>1, <1>3 DEF SendSelf, Send, NodeState
<1>5. LastIndex(o) = LastIndex(c) /\ LastTerm(o) = LastTerm(c)
  <2> HIDE DEF ms, answer, o
  <2> QED
    BY <1>4 DEF LastIndex, LastTerm
<1>6. \A m \in ms : /\ m.type \in {"MsgPreVote", "MsgVote"}
                    /\ m.index = LastIndex(o) /\ m.logTerm = LastTerm(o)
  <2> HIDE DEF o
  <2> QED
    BY <1>5
<1>7. answer.type \in {"MsgPreVoteResp", "MsgVoteResp"}
  BY DEF VoteResp
<1>8. c.self \in Seq(VoteRespMsg \cup AppRespMsg)
  BY <1>1 DEF NodeState
<1> HIDE DEF ms, answer, o
<1>9. Says(i, n, o)
  BY <1>2, <1>4, <1>6 DEF Says, IsGrant
<1>10. NoAcks(n, o)
  <2> SUFFICES ASSUME NEW m \in Message, Waits(o, m)
               PROVE  Waits(n, m)
    BY DEF NoAcks
  <2>1. IsAck(m) /\ (m \in o.outbox \/ \E k \in 1..Len(o.self) : m = o.self[k])
    BY DEF Waits
  <2>2. m \notin ms /\ m # answer
    BY <1>6, <1>7, <2>1 DEF IsAck
  <2>3. CASE m \in o.outbox
    BY <1>2, <1>4, <2>1, <2>2, <2>3 DEF Waits
  <2>4. ASSUME NEW k \in 1..Len(o.self), m = o.self[k]
        PROVE  Waits(n, m)
    <3>1. k \in 1..Len(c.self) /\ o.self[k] = c.self[k]
      BY <1>4, <1>8, <2>2, <2>4
    <3> QED
      BY <1>2, <2>1, <2>4, <3>1 DEF Waits
  <2> QED
    BY <2>1, <2>3, <2>4
<1>11. Speaks(i, n, o)
  BY <1>2, <1>4, <1>10 DEF Speaks
<1>12. o.commit >= n.commit
  BY <1>2, <1>4, SameCommit
<1> QED
  BY <1>9, <1>11, <1>12 DEF CommitStep, o

\* A candidate that has its quorum becomes the leader and announces it
LEMMA WinCommit ==
    ASSUME NEW i \in Node, NEW p \in NodeState, p.state = "Candidate"
    PROVE  CommitStep(i, p, BcastAppend(i, BecomeLeader(i, p)))
<1> DEFINE r == Reset(i, p, p.term)
           pr == BecomeReplicate(r.prog[i])
           e == [r EXCEPT !.lead = i, !.state = "Leader"]
           f == [e EXCEPT !.prog[i] = pr]
           g == AppendEntry(i, f, Empty)
           o == BcastAppend(i, g)
           match(j) == IF j = i THEN Len(p.log) ELSE 0
<1>1. r \in NodeState
  BY ResetType DEF NodeState
<1>2. /\ r.log = p.log /\ r.term = p.term /\ r.commit = p.commit /\ r.outbox = p.outbox
      /\ r.self = p.self /\ \A j \in Node : r.prog[j].match = match(j)
  BY DEF Reset, NodeState, ResetProgress, LastIndex
<1>3. pr \in Progress /\ pr.match = r.prog[i].match
  <2> HIDE DEF r
  <2> QED
    BY <1>1, ProgType, BecomeReplicateType, MatchKept
<1>4. /\ e \in NodeState /\ e.log = r.log /\ e.term = r.term /\ e.commit = r.commit
      /\ e.outbox = r.outbox /\ e.self = r.self /\ e.prog = r.prog /\ e.state = "Leader"
  <2> HIDE DEF r
  <2> QED
    BY <1>1 DEF NodeState
<1>5. f \in NodeState
  <2> HIDE DEF e, pr
  <2> QED
    BY <1>3, <1>4, SetProgType
<1>6. Tells(e, f)
  <2> HIDE DEF e, pr
  <2> QED
    BY <1>3, <1>4, SetProgTells
<1>7. f.outbox = e.outbox
  <2> HIDE DEF e, pr
  <2> QED
    BY <1>4 DEF NodeState
<1> HIDE DEF e, r, f, match
<1>8. /\ f.log = p.log /\ f.term = p.term /\ f.commit = p.commit /\ f.outbox = p.outbox
      /\ f.self = p.self /\ f.state = "Leader"
      /\ \A j \in Node : f.prog[j].match = match(j)
  BY <1>2, <1>4, <1>6, <1>7 DEF Tells
<1>9. Empty \in Value \cup {Empty}
  OBVIOUS
<1>10. /\ g \in NodeState /\ \E x \in Entry : x.term = g.term /\ g.log = Append(f.log, x)
       /\ AcksUpTo(i, f, g, Len(g.log))
       /\ g.state = "Leader" /\ g.term = f.term /\ g.commit = f.commit
       /\ g.prog = f.prog /\ g.outbox = f.outbox
  BY <1>5, <1>8, <1>9, AppendEntryType, AppendEntryAppends
<1>11. g = BecomeLeader(i, p)
  BY DEF BecomeLeader, f, e, r
<1> HIDE DEF g
<1>12. AcksUpTo(i, p, g, Len(g.log))
  BY <1>8, <1>10 DEF AcksUpTo, Waits
<1>13. Appends(i, p, g) /\ g.outbox = p.outbox
  BY <1>8, <1>10, <1>12 DEF Appends, match
<1>14. o \in NodeState /\ Tells(g, o)
  BY <1>10, BcastAppendType, BcastAppendTells
<1> HIDE DEF o
<1>15. CommitStep(i, p, o)
  BY <1>10, <1>13, <1>14, TellsAppends
<1> QED
  BY <1>11, <1>15 DEF o

-----------------------------------------------------------------------------
(***************************************************************************)
(* Answers, to a candidate or to a leader.                                 *)
(***************************************************************************)

\* An answer to a campaign
LEMMA StepVoteRespCommit ==
    ASSUME NEW i \in Node, NEW n \in NodeState, NEW m \in Message, Polls(n, m)
    PROVE  CommitStep(i, n, StepVoteResp(i, n, m))
<1> DEFINE polled == IF m.from \in n.granted \cup n.rejected THEN n
                     ELSE IF m.reject THEN [n EXCEPT !.rejected = @ \cup {m.from}]
                     ELSE [n EXCEPT !.granted = @ \cup {m.from}]
           won == polled.granted \in Quorum
           lost == Node \ polled.rejected \notin Quorum
           again == Campaign(i, polled, FALSE)
           leads == BcastAppend(i, BecomeLeader(i, polled))
           gives == BecomeFollower(i, polled, n.term, None)
<1>1. m.from \in Node /\ n.term \in Nat
  BY MessageFields DEF NodeState
<1>2. polled \in NodeState
  BY <1>1 DEF NodeState
<1>3. Follows(n, polled) /\ polled.state = n.state /\ polled.term = n.term
  BY DEF NodeState, Follows
<1>4. StepVoteResp(i, n, m) =
        CASE won /\ n.state = "PreCandidate" -> again
          [] won /\ n.state = "Candidate"    -> leads
          [] ~won /\ lost                    -> gives
          [] OTHER                           -> polled
  BY DEF StepVoteResp
<1> HIDE DEF polled
<1>5. CommitStep(i, n, polled)
  BY <1>2, <1>3, FollowsSpeaks
<1>6. CommitStep(i, n, again)
  <2>1. again \in NodeState /\ CommitStep(i, polled, again)
    BY <1>2, CampaignType, CampaignCommit
  <2> HIDE DEF again
  <2> QED
    BY <1>2, <1>3, <2>1, FollowsThen
<1>7. ASSUME n.state = "Candidate"
      PROVE  CommitStep(i, n, leads)
  <2>1. leads \in NodeState /\ CommitStep(i, polled, leads)
    BY <1>2, <1>3, <1>7, BecomeLeaderType, BcastAppendType, WinCommit
  <2> HIDE DEF leads
  <2> QED
    BY <1>2, <1>3, <2>1, FollowsThen
<1>8. CommitStep(i, n, gives)
  <2>1. gives \in NodeState /\ Follows(polled, gives)
    BY <1>1, <1>2, BecomeFollowerType, BecomeFollowerFollows
  <2> HIDE DEF gives
  <2> QED
    BY <1>2, <1>3, <2>1, FollowsSpeaks, FollowsThen
<1> HIDE DEF again, leads, gives, won, lost
<1> QED
  BY <1>4, <1>5, <1>6, <1>7, <1>8

\* A response, from a peer or from the node itself
LEMMA StepResponseCommit ==
    ASSUME NEW i \in Node, NEW n \in NodeState,
           NEW m \in Message, m.type \in {"MsgVoteResp", "MsgPreVoteResp", "MsgAppResp"},
           m.term >= n.term, Told(i, m)
    PROVE  CommitStep(i, n, StepResponse(i, n, m))
<1> DEFINE a == AtTermOf(i, n, m)
<1>1. a \in NodeState /\ Follows(n, a) /\ n.term \in Nat /\ m.term \in Nat
  BY AtTermOfType, AtTermOfFollows, MessageFields DEF NodeState
<1>2. a.state = "Leader" /\ m.type = "MsgAppResp" => m.term = a.term
  <2>1. /\ m.term >= n.term /\ m.type \notin {"MsgPreVote", "MsgPreVoteResp"} =>
              a.term = m.term
    BY <1>1, AtTermOfCalm
  <2> QED
    BY <2>1
<1>3. StepResponse(i, n, m) =
          CASE m.type = "MsgAppResp"                    -> StepAppResp(i, a, m)
            [] m.type # "MsgAppResp" /\ Polls(a, m)     -> StepVoteResp(i, a, m)
            [] OTHER                                    -> a
  BY DEF StepResponse
<1> HIDE DEF a
<1>4. CASE m.type = "MsgAppResp"
  <2> DEFINE o == StepAppResp(i, a, m)
  <2>1. m \in AppRespMsg
    BY <1>4, MessageFields
  <2>2. o \in NodeState /\ CommitStep(i, a, o)
    BY <1>1, <1>2, <1>4, <2>1, StepAppRespType, StepAppRespStep
  <2> HIDE DEF o
  <2>3. CommitStep(i, n, o)
    BY <1>1, <2>2, FollowsThen
  <2> QED
    BY <1>3, <1>4, <2>3 DEF o
<1>5. CASE m.type # "MsgAppResp" /\ Polls(a, m)
  <2> DEFINE o == StepVoteResp(i, a, m)
  <2>1. o \in NodeState /\ CommitStep(i, a, o)
    BY <1>1, <1>5, StepVoteRespType, StepVoteRespCommit
  <2> HIDE DEF o
  <2>2. CommitStep(i, n, o)
    BY <1>1, <2>1, FollowsThen
  <2> QED
    BY <1>3, <1>5, <2>2 DEF o
<1>6. CASE m.type # "MsgAppResp" /\ ~Polls(a, m)
  BY <1>1, <1>3, <1>6, FollowsSpeaks
<1> QED
  BY <1>4, <1>5, <1>6

-----------------------------------------------------------------------------
(***************************************************************************)
(* Calls and deliveries.                                                   *)
(***************************************************************************)

\* A message of the network
LEMMA DeliverCommit ==
    ASSUME TypeOK, NEW i \in Node, NEW m \in msgs, m.to = i, Deliver(i, m)
    PROVE  \E o \in NodeState : Become(i, o) /\ CommitStep(i, node[i], o)
<1> DEFINE n == node[i]
           a == AtTermOf(i, n, m)
           Goal == \E o \in NodeState : Become(i, o) /\ CommitStep(i, n, o)
<1>1. /\ m \in Message /\ m.from \in Node /\ m.term \in Nat
      /\ n \in NodeState /\ n.term \in Nat
  BY MessageFields DEF TypeOK, NodeState
<1>2. /\ a \in NodeState /\ Follows(n, a)
      /\ m.term >= n.term /\ m.type \notin {"MsgPreVote", "MsgPreVoteResp"} => a.term = m.term
  BY <1>1, AtTermOfType, AtTermOfCalm, AtTermOfFollows
<1>3. ASSUME NEW o \in NodeState, Become(i, o), CommitStep(i, a, o)
      PROVE  Goal
  BY <1>1, <1>2, <1>3, FollowsThen
<1>4. ASSUME NEW o \in NodeState, Become(i, o), CommitStep(i, n, o)
      PROVE  Goal
  BY <1>4
<1>5. CommitStep(i, a, a)
  BY <1>2, SetFollows, FollowsSpeaks
<1> SUFFICES Goal
  OBVIOUS
<1> HIDE DEF a, Goal
<1>8. CASE ReceiveLowerTerm(i, m)
  <2>1. /\ StepLowerTerm(i, n, m) \in NodeState /\ Become(i, StepLowerTerm(i, n, m))
        /\ CommitStep(i, n, StepLowerTerm(i, n, m))
    BY <1>1, <1>8, StepLowerTermType, StepLowerTermCommit DEF ReceiveLowerTerm
  <2> QED
    BY <1>4, <2>1
<1>9. CASE ReceiveVote(i, m)
  <2>1. m.type \in {"MsgVote", "MsgPreVote"} /\ Become(i, StepVote(i, a, m))
    BY <1>9 DEF ReceiveVote, Receive, a
  <2>2. StepVote(i, a, m) \in NodeState /\ CommitStep(i, a, StepVote(i, a, m))
    BY <1>1, <1>2, <2>1, StepVoteType, StepVoteCommit
  <2> QED
    BY <1>3, <2>1, <2>2
<1>10. CASE ReceiveResponse(i, m)
  <2>1. /\ m.type \in {"MsgVoteResp", "MsgPreVoteResp", "MsgAppResp"} /\ m.term >= n.term
        /\ Become(i, StepResponse(i, n, m))
    BY <1>10 DEF ReceiveResponse, Receive
  <2>2. Told(i, m)
    BY DEF Told
  <2>3. StepResponse(i, n, m) \in NodeState /\ CommitStep(i, n, StepResponse(i, n, m))
    BY <1>1, <2>1, <2>2, StepResponseCommit, StepResponseType
  <2> QED
    BY <1>4, <2>1, <2>3
<1>11. CASE ReceiveApp(i, m)
  <2>1. m.type = "MsgApp" /\ m.term >= n.term /\ Become(i, StepApp(i, a, m))
    BY <1>11 DEF ReceiveApp, Receive, a
  <2>2. StepApp(i, a, m) \in NodeState /\ CommitStep(i, a, StepApp(i, a, m))
    BY <1>1, <1>2, <2>1, StepAppType, StepAppCommit
  <2> QED
    BY <1>3, <2>1, <2>2
<1>12. CASE ReceiveHeartbeat(i, m)
  <2>1. m.type = "MsgHeartbeat" /\ m.term >= n.term /\ Become(i, StepHeartbeat(i, a, m))
    BY <1>12 DEF ReceiveHeartbeat, Receive, a
  <2>2. StepHeartbeat(i, a, m) \in NodeState /\ CommitStep(i, a, StepHeartbeat(i, a, m))
    BY <1>1, <1>2, <2>1, StepHeartbeatType, StepHeartbeatCommit
  <2> QED
    BY <1>3, <2>1, <2>2
<1>13. CASE ReceiveHeartbeatResp(i, m)
  <2> DEFINE o == StepHeartbeatResp(i, a, m)
  <2>1. Become(i, IF a.state = "Leader" THEN o ELSE a)
    BY <1>13 DEF ReceiveHeartbeatResp, a
  <2>2. a.state = "Leader" => o \in NodeState /\ CommitStep(i, a, o)
    BY <1>1, <1>2, StepHeartbeatRespType, StepHeartbeatRespStep
  <2> HIDE DEF o
  <2> QED
    BY <1>2, <1>3, <1>5, <2>1, <2>2
<1>14. CASE ReceiveTimeoutNow(i, m)
  <2> DEFINE o == Campaign(i, a, FALSE)
  <2>1. Become(i, IF a.state = "Follower" THEN o ELSE a)
    BY <1>14 DEF ReceiveTimeoutNow, a
  <2>2. o \in NodeState /\ CommitStep(i, a, o)
    BY <1>2, CampaignCommit, CampaignType
  <2> HIDE DEF o
  <2> QED
    BY <1>2, <1>3, <1>5, <2>1, <2>2
<1>15. CASE ReceiveTransferLeader(i, m)
  <2> DEFINE o == StepTransferLeader(i, a, m.from)
  <2>1. Become(i, o)
    BY <1>15 DEF ReceiveTransferLeader, a
  <2>2. o \in NodeState /\ CommitStep(i, a, o)
    BY <1>1, <1>2, StepTransferLeaderType, StepTransferLeaderCommit
  <2> HIDE DEF o
  <2> QED
    BY <1>3, <2>1, <2>2
<1>16. CASE ReceiveProp(i, m)
  <2> DEFINE o == StepProp(i, n, m.val)
  <2>1. m.val \in Value /\ Become(i, o)
    BY <1>1, <1>16, MessageFields DEF ReceiveProp, PropMsg
  <2>2. o \in NodeState /\ CommitStep(i, n, o)
    BY <1>1, <2>1, StepPropType, StepPropCommit
  <2> HIDE DEF o
  <2> QED
    BY <1>4, <2>1, <2>2
<1> QED
  BY <1>8, <1>9, <1>10, <1>11, <1>12, <1>13, <1>14, <1>15, <1>16 DEF Deliver

\* A call of a timer or of the application
LEMMA LocalCommit ==
    ASSUME TypeOK, NEW i \in Node, Local(i)
    PROVE  \E o \in NodeState : Become(i, o) /\ CommitStep(i, node[i], o)
<1> DEFINE n == node[i]
           Goal == \E o \in NodeState : Become(i, o) /\ CommitStep(i, n, o)
<1>1. n \in NodeState /\ n.term \in Nat
  BY DEF TypeOK, NodeState
<1>2. ASSUME NEW o \in NodeState, Become(i, o), CommitStep(i, n, o)
      PROVE  Goal
  BY <1>2
<1>3. ASSUME NEW o \in NodeState, Become(i, o), Follows(n, o)
      PROVE  Goal
  BY <1>1, <1>3, FollowsSpeaks
<1> SUFFICES Goal
  OBVIOUS
<1> HIDE DEF Goal
<1>4. CASE Hup(i)
  <2>1. Become(i, Campaign(i, n, PreVote)) /\ PreVote \in BOOLEAN
    BY <1>4, OptionAssumption DEF Hup
  <2>2. Campaign(i, n, PreVote) \in NodeState /\ CommitStep(i, n, Campaign(i, n, PreVote))
    BY <1>1, <2>1, CampaignType, CampaignCommit
  <2> QED
    BY <1>2, <2>1, <2>2
<1>5. CASE Beat(i)
  <2>1. Become(i, BcastHeartbeat(i, n, {0})) /\ n.state = "Leader"
    BY <1>5 DEF Beat
  <2> QED
    BY <1>1, <1>2, <2>1, BcastHeartbeatType, BcastHeartbeatStep
<1>6. CASE CheckQuorumFails(i)
  <2> DEFINE o == BecomeFollower(i, n, n.term, None)
  <2>1. Become(i, o)
    BY <1>6 DEF CheckQuorumFails
  <2>2. o \in NodeState /\ Follows(n, o)
    BY <1>1, BecomeFollowerType, BecomeFollowerFollows
  <2> HIDE DEF o
  <2> QED
    BY <1>3, <2>1, <2>2
<1>7. CASE AbortTransfer(i)
  <2> DEFINE o == [n EXCEPT !.transferee = None]
  <2>1. Become(i, o)
    BY <1>7 DEF AbortTransfer
  <2>2. o \in NodeState /\ Follows(n, o)
    BY <1>1, SetFieldTypes, SetFollows
  <2> HIDE DEF o
  <2> QED
    BY <1>3, <2>1, <2>2
<1>8. ASSUME NEW val \in Value, Propose(i, val)
      PROVE  Goal
  BY <1>1, <1>2, <1>8, StepPropType, StepPropCommit DEF Propose
<1>9. ASSUME NEW to \in Node, TransferLeader(i, to)
      PROVE  Goal
  BY <1>1, <1>2, <1>9, StepTransferLeaderType, StepTransferLeaderCommit DEF TransferLeader
<1>10. CASE ForgetLeader(i)
  <2> DEFINE o == [n EXCEPT !.lead = None]
  <2>1. Become(i, o)
    BY <1>10 DEF ForgetLeader
  <2>2. o \in NodeState /\ Follows(n, o)
    BY <1>1, SetFieldTypes, SetFollows
  <2> HIDE DEF o
  <2> QED
    BY <1>3, <2>1, <2>2
<1>11. ASSUME NEW j \in Node \ {i}, ReportUnreachable(i, j)
       PROVE  Goal
  <2> DEFINE pr == BecomeProbe(n.prog[j])
             o == [n EXCEPT !.prog[j] = pr]
  <2>1. Become(i, o) /\ n.state = "Leader"
    BY <1>11 DEF ReportUnreachable
  <2>2. pr \in Progress /\ pr.match = n.prog[j].match
    BY <1>1, ProgType, BecomeProbeType, MatchKept
  <2>3. o \in NodeState /\ Tells(n, o)
    <3> HIDE DEF pr
    <3> QED
      BY <1>1, <2>2, SetProgType, SetProgTells
  <2> HIDE DEF o
  <2> QED
    BY <1>1, <1>2, <2>1, <2>3, TellsSpeaks
<1> QED
  BY <1>4, <1>5, <1>6, <1>7, <1>8, <1>9, <1>10, <1>11 DEF Local

\* A node steps one of its own answers
LEMMA AdvanceCommit ==
    ASSUME TypeOK, NEW i \in Node, Advance(i)
    PROVE  \E o \in NodeState : Become(i, o) /\ CommitStep(i, node[i], o)
<1> DEFINE m == Head(node[i].steps)
           n == [node[i] EXCEPT !.steps = Tail(@)]
           o == StepResponse(i, n, m)
<1>1. /\ node[i] \in NodeState /\ node[i].steps # <<>> /\ node[i].term \in Nat
      /\ node[i].steps \in Seq(VoteRespMsg \cup AppRespMsg)
  BY DEF Advance, TypeOK, NodeState
<1>2. /\ m \in VoteRespMsg \cup AppRespMsg /\ m = node[i].steps[1]
      /\ Tail(node[i].steps) \in Seq(VoteRespMsg \cup AppRespMsg)
      /\ 1 \in 1..Len(node[i].steps)
  BY <1>1
<1>3. /\ m \in Message /\ m.type \in {"MsgVoteResp", "MsgPreVoteResp", "MsgAppResp"}
      /\ m.term \in Nat /\ Told(i, m)
  BY <1>2 DEF Message, VoteRespMsg, AppRespMsg, Told
<1>4. n \in NodeState /\ n.term = node[i].term
  BY <1>1, <1>2 DEF NodeState
<1>5. Follows(node[i], n)
  BY <1>1, SetFollows
<1>6. Become(i, n) \/ (Become(i, o) /\ ~(m.term < n.term))
  BY DEF Advance
<1> HIDE DEF m, n
<1>7. CASE Become(i, n)
  BY <1>1, <1>4, <1>5, <1>7, FollowsSpeaks
<1>8. CASE Become(i, o) /\ ~(m.term < n.term)
  <2>1. m.term >= n.term
    BY <1>1, <1>3, <1>4, <1>8
  <2>2. o \in NodeState /\ CommitStep(i, n, o)
    BY <1>3, <1>4, <2>1, StepResponseType, StepResponseCommit
  <2> HIDE DEF o
  <2>3. CommitStep(i, node[i], o)
    BY <1>1, <1>4, <1>5, <2>2, FollowsThen
  <2> QED
    BY <1>8, <2>2, <2>3
<1> QED
  BY <1>6, <1>7, <1>8

-----------------------------------------------------------------------------
(***************************************************************************)
(* What follows from the logs of the leaders.                              *)
(***************************************************************************)

\* What a leader's log is made of
LEMMA LeaderLogTypes ==
    ASSUME NEW K \in SUBSET LeaderLog, NEW r \in K
    PROVE  /\ r.term \in Nat /\ r.log \in Seq(Entry) /\ Len(r.log) \in Nat
           /\ \A k \in 1..Len(r.log) : r.log[k].term \in Nat
<1>1. r.term \in Nat /\ r.log \in Seq(Entry) /\ Len(r.log) \in Nat
  BY DEF LeaderLog
<1> QED
  BY <1>1, EntryTerm

\* Logs of one term agree as far as both go
LEMMA SameTermHas ==
    ASSUME NEW H, NEW K \in SUBSET LeaderLog, LeadersWrote(H, K), NEW r \in K, NEW s \in K,
           r.term = s.term, NEW k \in Nat, k =< Len(r.log), k =< Len(s.log)
    PROVE  Has(s.log, r.log, k)
<1>1. /\ r.log \in Seq(Entry) /\ Len(r.log) \in Nat
      /\ s.log \in Seq(Entry) /\ Len(s.log) \in Nat
  BY LeaderLogTypes
<1>2. CASE Len(r.log) =< Len(s.log)
  <2>1. Has(s.log, r.log, Len(r.log))
    BY <1>2 DEF LeadersWrote
  <2> QED
    BY <1>1, <2>1, HasLess
<1>3. CASE Len(s.log) =< Len(r.log)
  <2>1. Has(r.log, s.log, Len(s.log))
    BY <1>3 DEF LeadersWrote
  <2>2. Has(r.log, s.log, k)
    BY <1>1, <2>1, HasLess
  <2> QED
    BY <2>2, HasSym
<1> QED
  BY <1>1, <1>2, <1>3

\* A leader's log has no term above the leader's
LEMMA LeaderTerms ==
    ASSUME NEW H, NEW K \in SUBSET LeaderLog, \A h \in H : Sorted(h), LeadersWrote(H, K),
           NEW r \in K, NEW k \in 1..Len(r.log)
    PROVE  r.log[k].term =< r.term
<1>1. Len(r.log) \in Nat /\ Sorted(r.log) /\ r.log[Len(r.log)].term = r.term
  BY LeaderLogTypes DEF LeadersWrote, Own
<1>2. k =< Len(r.log) /\ Len(r.log) \in 1..Len(r.log)
  BY <1>1
<1> QED
  BY <1>1, <1>2 DEF Sorted

\* What is chosen may become committed
LEMMA ChosenIsFirm ==
    ASSUME NEW D, NEW A, NEW r, NEW k, Own(r, k), IsChosen(A, r.term, k)
    PROVE  Firm(D, A, r, k)
  BY DEF IsChosen, Choosable, Firm

\* What is committed in a term is in the logs of all later leaders, and as far as they go in
\* those of the same term
LEMMA DoneThen ==
    ASSUME NEW H, NEW K \in SUBSET LeaderLog, NEW A, LeadersWrote(H, K), LeadersHave(K, A),
           NEW t \in Nat, NEW log \in Seq(Entry), NEW c \in Nat, Done(K, A, t, log, c),
           NEW s \in K, t =< s.term
    PROVE  /\ \A k \in Nat : k =< c /\ k =< Len(s.log) => Has(log, s.log, k)
           /\ t < s.term => Has(log, s.log, c)
           /\ c > 0 => \E r \in K : r.term = s.term /\ c =< Len(r.log)
<1>0. s.term \in Nat /\ s.log \in Seq(Entry) /\ Len(s.log) \in Nat
  BY LeaderLogTypes
<1>1. CASE c = 0
  <2>1. \A k \in Nat : k =< c => k = 0
    BY <1>1
  <2>2. Has(log, s.log, 0)
    BY <1>0 DEF Has
  <2> QED
    BY <1>1, <2>1, <2>2
<1>2. ASSUME NEW r \in K, NEW x \in Nat, r.term =< t, c =< x, Own(r, x),
             IsChosen(A, r.term, x), Has(log, r.log, c)
      PROVE  /\ \A k \in Nat : k =< c /\ k =< Len(s.log) => Has(log, s.log, k)
             /\ t < s.term => Has(log, s.log, c)
             /\ c > 0 => \E q \in K : q.term = s.term /\ c =< Len(q.log)
  <2>1. r.term \in Nat /\ r.log \in Seq(Entry) /\ Len(r.log) \in Nat /\ x \in 1..Len(r.log)
    BY <1>2, LeaderLogTypes DEF Own
  <2>2. CASE r.term = s.term
    <3>1. ASSUME NEW k \in Nat, k =< c, k =< Len(s.log)
          PROVE  Has(log, s.log, k)
      <4>1. k =< Len(r.log)
        BY <1>2, <2>1, <3>1
      <4>2. Has(r.log, s.log, k)
        BY <2>2, <3>1, <4>1, SameTermHas
      <4> QED
        BY <1>0, <1>2, <2>1, <3>1, <4>2, HasLess, HasTrans
    <3>2. ~(t < s.term)
      BY <1>0, <1>2, <2>1, <2>2
    <3>3. c =< Len(r.log)
      BY <1>2, <2>1
    <3> QED
      BY <2>2, <3>1, <3>2, <3>3
  <2>3. CASE r.term # s.term
    <3>1. r.term < s.term
      BY <1>0, <1>2, <2>1, <2>3
    <3>2. Has(s.log, r.log, x)
      BY <1>2, <3>1, ChosenIsFirm DEF LeadersHave
    <3>3. Has(r.log, s.log, c)
      BY <1>0, <1>2, <2>1, <3>2, HasSym, HasLess
    <3>4. Has(log, s.log, c)
      BY <1>0, <1>2, <2>1, <3>3, HasTrans
    <3>5. \A k \in Nat : k =< c => Has(log, s.log, k)
      BY <1>0, <3>4, HasLess
    <3>6. c =< Len(s.log)
      BY <3>4 DEF Has
    <3> QED
      BY <3>4, <3>5, <3>6
  <2> QED
    BY <2>2, <2>3
<1> QED
  BY <1>1, <1>2 DEF Done

\* What is committed stays committed in a later term, of a log that has it, of more leaders
\* and with more acknowledgements
LEMMA ChosenMore ==
    ASSUME NEW A, NEW B, A \subseteq B, NEW t, NEW k, IsChosen(A, t, k)
    PROVE  IsChosen(B, t, k)
  BY DEF IsChosen, Acked

LEMMA DoneMore ==
    ASSUME NEW K \in SUBSET LeaderLog, NEW M \in SUBSET LeaderLog, K \subseteq M,
           NEW A, NEW B, A \subseteq B,
           NEW t \in Nat, NEW u \in Nat, t =< u, NEW c \in Nat, NEW d \in Nat, d =< c,
           NEW log \in Seq(Entry), NEW new \in Seq(Entry), Has(new, log, d),
           Done(K, A, t, log, c)
    PROVE  Done(M, B, u, new, d)
<1>1. CASE c = 0
  <2>1. d = 0
    BY <1>1
  <2> QED
    BY <2>1 DEF Done
<1>2. ASSUME NEW r \in K, NEW x \in Nat, r.term =< t, c =< x, Own(r, x),
             IsChosen(A, r.term, x), Has(log, r.log, c)
      PROVE  Done(M, B, u, new, d)
  <2>1. r.term \in Nat /\ r.log \in Seq(Entry)
    BY LeaderLogTypes
  <2>2. r \in M /\ r.term =< u /\ d =< x
    BY <1>2, <2>1
  <2>3. IsChosen(B, r.term, x)
    BY <1>2, ChosenMore
  <2>4. Has(new, r.log, d)
    BY <1>2, <2>1, HasLess, HasTrans
  <2> QED
    BY <1>2, <2>2, <2>3, <2>4 DEF Done
<1> QED
  BY <1>1, <1>2 DEF Done

\* Acknowledgements that are stored make nothing committable that was not
LEMMA FirmBefore ==
    ASSUME NEW D, NEW E, \A j \in Node : D[j].term \in Nat /\ E[j].term \in Nat,
           \A j \in Node : D[j].term =< E[j].term,
           NEW A, NEW B \in SUBSET StoredAck,
           \A j \in Node : \A t, y \in Nat : <<j, t, y>> \in B \ A => D[j].term =< t,
           NEW r, r.term \in Nat, NEW k, Firm(E, B, r, k)
    PROVE  Firm(D, A, r, k)
<1>1. PICK Q \in Quorum : \A j \in Q : Acked(B, j, r.term, k) \/ E[j].term =< r.term
  BY DEF Firm, Choosable
<1>2. ASSUME NEW j \in Q
      PROVE  Acked(A, j, r.term, k) \/ D[j].term =< r.term
  <2>1. j \in Node
    BY DEF Quorum
  <2>2. ASSUME NEW x \in Nat, x >= k, <<j, r.term, x>> \in B
        PROVE  Acked(A, j, r.term, k) \/ D[j].term =< r.term
    BY <2>1, <2>2 DEF Acked
  <2>3. CASE E[j].term =< r.term
    BY <2>1, <2>3
  <2> QED
    BY <1>1, <2>2, <2>3 DEF Acked
<1> QED
  BY <1>2 DEF Firm, Choosable

LEMMA ShowsBefore ==
    ASSUME NEW D, NEW E, NEW A, NEW B, NEW K \in SUBSET LeaderLog,
           \A r \in K : \A k \in Nat : Firm(E, B, r, k) => Firm(D, A, r, k),
           NEW s, NEW t, NEW y, Shows(D, K, A, s, t, y)
    PROVE  Shows(E, K, B, s, t, y)
  BY DEF Shows

-----------------------------------------------------------------------------
(***************************************************************************)
(* A leader's log joins the others.                                        *)
(***************************************************************************)

\* Fields of messages
LEMMA AllMsgsType ==
    ASSUME ElectionInv, NEW m \in AllMsgs
    PROVE  m \in Message /\ m.from \in Node /\ m.term \in Nat
<1>1. m \in Message
  <2>1. msgs \subseteq Message /\ \A i \in Node : node[i].outbox \subseteq Message
    BY DEF ElectionInv, TypeOK, NodeState
  <2> QED
    BY <2>1 DEF AllMsgs
<1> QED
  BY <1>1, MessageFields

LEMMA AckFields ==
    ASSUME NEW m \in Message, IsAck(m)
    PROVE  m.from \in Node /\ m.term \in Nat /\ m.index \in Nat /\ m.index > 0
<1>1. m \in AppRespMsg
  BY MessageFields DEF IsAck
<1> QED
  BY <1>1 DEF AppRespMsg, IsAck

\* Once a later term has a leader, no entry of a term may become committed that nobody has
\* acknowledged: a quorum is past the term
LEMMA TooLate ==
    ASSUME ElectionInv, NEW H \in SUBSET Seq(Entry), Explains(H),
           NEW K \in SUBSET LeaderLog, NEW A, LeadersWrote(H, K), AcksHold(K, A),
           NEW t \in Nat, t >= 1, NEW k \in Nat, ~LedTo(K, t, k), NEW r \in K, r.term > t
    PROVE  ~Choosable(disk, A, t, k)
<1> SUFFICES ASSUME Choosable(disk, A, t, k)
             PROVE  FALSE
  OBVIOUS
<1>1. /\ r.term \in Nat /\ Len(r.log) \in 1..Len(r.log) /\ r.log \in H
      /\ r.log[Len(r.log)].term = r.term
  BY LeaderLogTypes DEF LeadersWrote, Own
<1>2. r.term > 1
  BY <1>1
<1>3. PICK c \in Node : Wrote(c, r.term)
  BY <1>1, <1>2 DEF Explains
<1>4. PICK Q \in Quorum : \A j \in Q : Acked(A, j, t, k) \/ disk[j].term =< t
  BY DEF Choosable
<1>5. PICK j \in Q \cap Supporters(c, r.term) : TRUE
  BY <1>3, QuorumsMeet DEF Wrote
<1>6. j \in Node /\ disk[j].term \in Nat
  BY <1>5, LogTypes DEF Quorum
<1>7. disk[j].term >= r.term
  <2>1. CASE j = c
    BY <1>3, <2>1 DEF Wrote
  <2>2. CASE Granted(j, r.term, c)
    <3>1. PICK m \in msgs : IsGrant(m) /\ m.from = j /\ m.term = r.term
      BY <2>2 DEF Granted
    <3>2. Holds(disk[j], r.term, VoteOf(m))
      BY <3>1 DEF ElectionInv, BallotsHold, IsBallot
    <3> QED
      BY <1>1, <1>6, <3>2 DEF Holds
  <2> QED
    BY <1>5, <2>1, <2>2 DEF Supporters
<1>8. ~(disk[j].term =< t)
  BY <1>1, <1>6, <1>7
<1>9. Acked(A, j, t, k)
  BY <1>4, <1>5, <1>8
<1>10. PICK x \in Nat : x >= k /\ <<j, t, x>> \in A
  BY <1>9 DEF Acked
<1>11. LedTo(K, t, x)
  BY <1>6, <1>10 DEF AcksHold
<1>12. LedTo(K, t, k)
  <2>1. PICK q \in K : q.term = t /\ x =< Len(q.log)
    BY <1>11 DEF LedTo
  <2>2. Len(q.log) \in Nat
    BY LeaderLogTypes
  <2>3. k =< Len(q.log)
    BY <1>10, <2>1, <2>2
  <2> QED
    BY <2>1, <2>3 DEF LedTo
<1> QED
  BY <1>12

\* What was acknowledged is of the log as it was before the leader appended to it
LEMMA ShowsLonger ==
    ASSUME NEW K \in SUBSET LeaderLog, NEW D, NEW A, NEW x, x.log \in Seq(Entry),
           NEW t \in Nat, NEW y \in Nat, Shows(D, K, A, x, t, y), LedTo(K, t, y),
           NEW T \in Nat, NEW log \in Seq(Entry), NEW e \in Entry, e.term = T,
           \A r \in K : r.term = T =>
              Len(r.log) =< Len(log) /\ [term |-> T, log |-> log] \in K
    PROVE  Shows(D, K \cup {[term |-> T, log |-> Append(log, e)]}, A, x, t, y)
<1> DEFINE L == Append(log, e)
           s == [term |-> T, log |-> L]
           w == [term |-> T, log |-> log]
<1>1. /\ Has(L, log, Len(log)) /\ L \in Seq(Entry) /\ Len(L) = Len(log) + 1
      /\ Len(log) \in Nat /\ \A k \in 1..Len(log) : L[k] = log[k]
  BY HasAppend
<1> HIDE DEF L
<1>2. ASSUME NEW k \in Nat, T = t, k =< y, k =< Len(L), x.term = t \/ Firm(D, A, s, k)
      PROVE  Has(x.log, L, k)
  <2>1. PICK r \in K : r.term = t /\ y =< Len(r.log)
    BY DEF LedTo
  <2>2. Len(r.log) =< Len(log) /\ w \in K /\ Len(r.log) \in Nat
    BY <1>2, <2>1, LeaderLogTypes
  <2>3. k =< Len(log)
    BY <1>1, <1>2, <2>1, <2>2
  <2>4. Firm(D, A, s, k) => Firm(D, A, w, k)
    BY <1>1, <2>3 DEF Firm, Own
  <2>5. Has(x.log, log, k)
    BY <1>2, <2>2, <2>3, <2>4 DEF Shows
  <2>6. Has(log, L, k)
    BY <1>1, <1>2, <2>3, HasSym, HasLess
  <2> QED
    BY <1>1, <1>2, <2>5, <2>6, HasTrans
<1>3. \A k \in Nat : s.term = t /\ k =< y /\ k =< Len(s.log)
                       /\ (x.term = t \/ Firm(D, A, s, k)) => Has(x.log, s.log, k)
  BY <1>2
<1> HIDE DEF s
<1>4. Shows(D, K \cup {s}, A, x, t, y)
  BY <1>3 DEF Shows
<1> QED
  BY <1>4 DEF s, L

\* The log of a leader that appends an entry, where the leader has what may be committed
LEMMA AddLog ==
    ASSUME ElectionInv, NEW H \in SUBSET Seq(Entry), Explains(H),
           NEW K \in SUBSET LeaderLog, NEW A \in SUBSET StoredAck, History(H, K, A),
           NEW T \in Nat, T >= 1, NEW log \in H, NEW e \in Entry, e.term = T,
           \A k \in 1..Len(log) : log[k].term =< T,
           \A r \in K : r.term = T =>
              Len(r.log) =< Len(log) /\ [term |-> T, log |-> log] \in K,
           \A r \in K : \A k \in Nat :
              r.term < T /\ Firm(disk, A, r, k) => Has(log, r.log, k)
    PROVE  History(H \cup {Append(log, e)},
                   K \cup {[term |-> T, log |-> Append(log, e)]}, A)
<1> DEFINE L == Append(log, e)
           s == [term |-> T, log |-> L]
           w == [term |-> T, log |-> log]
           G == H \cup {L}
           M == K \cup {s}
<1>1. /\ Has(L, log, Len(log)) /\ L \in Seq(Entry) /\ Len(L) = Len(log) + 1
      /\ Len(log) \in Nat /\ L[Len(L)] = e /\ \A k \in 1..Len(log) : L[k] = log[k]
      /\ log \in Seq(Entry)
  BY HasAppend
<1> HIDE DEF L
<1>2. /\ LogsWritten(H, K) /\ LeadersWrote(H, K) /\ LeadersHave(K, A)
      /\ AcksHold(K, A) /\ RequestsTell /\ VotesRespect(K, A) /\ CommitsHold(K, A)
  BY DEF History
<1>3. M \in SUBSET LeaderLog /\ s.term = T /\ s.log = L
  BY <1>1 DEF LeaderLog
<1>4. LogsWritten(G, M)
  <2>1. Sorted(L)
    <3> SUFFICES ASSUME NEW k \in 1..Len(L), NEW l \in 1..Len(L), k =< l
                 PROVE  L[k].term =< L[l].term
      BY DEF Sorted
    <3>1. Sorted(log)
      BY <1>2 DEF LogsWritten
    <3>2. CASE l = Len(L)
      <4>1. CASE k = Len(L)
        BY <1>1, <3>2, <4>1
      <4>2. CASE k # Len(L)
        <5>1. k \in 1..Len(log)
          BY <1>1, <4>2
        <5> QED
          BY <1>1, <3>2, <5>1
      <4> QED
        BY <4>1, <4>2
    <3>3. CASE l # Len(L)
      <4>1. k \in 1..Len(log) /\ l \in 1..Len(log)
        BY <1>1, <3>3
      <4> QED
        BY <1>1, <3>1, <4>1 DEF Sorted
    <3> QED
      BY <3>2, <3>3
  <2>2. ASSUME NEW k \in 1..Len(L)
        PROVE  \E r \in M : r.term = L[k].term /\ Has(L, r.log, k)
    <3>1. CASE k = Len(L)
      <4>1. Has(L, s.log, k)
        BY <1>1, <1>3, HasSelf
      <4> QED
        BY <1>1, <1>3, <3>1, <4>1
    <3>2. CASE k # Len(L)
      <4>1. k \in 1..Len(log) /\ k \in Nat
        BY <1>1, <3>2
      <4>2. PICK r \in K : r.term = log[k].term /\ Has(log, r.log, k)
        BY <1>2, <4>1 DEF LogsWritten
      <4>3. Has(L, log, k)
        BY <1>1, <4>1, HasLess
      <4>4. Has(L, r.log, k)
        BY <1>1, <4>1, <4>2, <4>3, HasTrans, LeaderLogTypes
      <4> QED
        BY <1>1, <4>1, <4>2, <4>4
    <3> QED
      BY <3>1, <3>2
  <2> QED
    BY <1>2, <2>1, <2>2 DEF LogsWritten
<1>5. LeadersWrote(G, M)
  <2>1. Own(s, Len(s.log))
    BY <1>1, <1>3 DEF Own
  <2>2. ASSUME NEW r \in K, r.term = T
        PROVE  Has(L, r.log, Len(r.log)) /\ ~(Len(L) =< Len(r.log))
    <3>1. w \in K /\ Len(r.log) =< Len(log) /\ Len(r.log) \in Nat /\ r.log \in Seq(Entry)
      BY <2>2, LeaderLogTypes
    <3>2. Has(log, r.log, Len(r.log))
      BY <1>2, <2>2, <3>1, SameTermHas
    <3>3. Has(L, log, Len(r.log))
      BY <1>1, <3>1, HasLess
    <3> QED
      BY <1>1, <3>1, <3>2, <3>3, HasTrans
  <2>3. Has(L, L, Len(L))
    BY <1>1, HasSelf
  <2>4. \A r \in M : r.term >= 1 /\ r.log \in G /\ Own(r, Len(r.log))
    BY <1>2, <1>3, <2>1 DEF LeadersWrote
  <2>5. ASSUME NEW r \in M, NEW q \in M, r.term = q.term, Len(r.log) =< Len(q.log)
        PROVE  Has(q.log, r.log, Len(r.log))
    <3>1. CASE r \in K /\ q \in K
      BY <1>2, <2>5, <3>1 DEF LeadersWrote
    <3>2. CASE r \in K /\ q = s
      BY <1>3, <2>2, <2>5, <3>2
    <3>3. CASE r = s /\ q \in K
      BY <1>3, <2>2, <2>5, <3>3
    <3>4. CASE r = s /\ q = s
      BY <1>3, <2>3, <3>4
    <3> QED
      BY <3>1, <3>2, <3>3, <3>4
  <2> QED
    BY <2>4, <2>5 DEF LeadersWrote
<1>6. LeadersHave(M, A)
  <2>1. ASSUME NEW r \in M, NEW q \in M, NEW k \in Nat, r.term < q.term, Firm(disk, A, r, k)
        PROVE  Has(q.log, r.log, k)
    <3>1. CASE r \in K /\ q \in K
      BY <1>2, <2>1, <3>1 DEF LeadersHave
    <3>2. CASE r \in K /\ q = s
      <4>1. Has(log, r.log, k) /\ r.log \in Seq(Entry)
        BY <1>3, <2>1, <3>2, LeaderLogTypes
      <4>2. k =< Len(log)
        BY <4>1 DEF Has
      <4>3. Has(L, log, k)
        BY <1>1, <4>2, HasLess
      <4> QED
        BY <1>1, <1>3, <3>2, <4>1, <4>3, HasTrans
    <3>3. CASE r = s /\ q \in K
      <4>1. k \in 1..Len(L) /\ L[k].term = T /\ Choosable(disk, A, T, k) /\ q.term > T
        BY <1>3, <2>1, <3>3, LeaderLogTypes DEF Firm, Own
      <4>2. LedTo(K, T, k)
        BY <1>2, <2>1, <3>3, <4>1, TooLate
      <4>3. PICK p \in K : p.term = T /\ k =< Len(p.log)
        BY <4>2 DEF LedTo
      <4>4. w \in K /\ k =< Len(log) /\ k \in 1..Len(log)
        BY <1>1, <4>1, <4>3, LeaderLogTypes
      <4>5. Firm(disk, A, w, k)
        BY <1>1, <4>1, <4>4 DEF Firm, Own
      <4>6. Has(q.log, log, k) /\ q.log \in Seq(Entry)
        BY <1>2, <1>3, <2>1, <3>3, <4>4, <4>5, LeaderLogTypes DEF LeadersHave
      <4>7. Has(log, L, k)
        BY <1>1, <4>4, HasLess, HasSym
      <4> QED
        BY <1>1, <1>3, <3>3, <4>6, <4>7, HasTrans
    <3>4. CASE r = s /\ q = s
      BY <2>1, <3>4
    <3> QED
      BY <3>1, <3>2, <3>3, <3>4
  <2> QED
    BY <2>1 DEF LeadersHave
<1>7. ASSUME NEW x, x.log \in Seq(Entry), NEW t \in Nat, NEW y \in Nat,
             Shows(disk, K, A, x, t, y), LedTo(K, t, y)
      PROVE  Shows(disk, M, A, x, t, y) /\ LedTo(M, t, y)
  <2>1. Shows(disk, M, A, x, t, y)
    BY <1>1, <1>7, ShowsLonger DEF L
  <2>2. LedTo(M, t, y)
    BY <1>7 DEF LedTo
  <2> QED
    BY <2>1, <2>2
<1>8. AcksHold(M, A)
  <2>1. ASSUME NEW j \in Node, NEW t \in Nat, NEW y \in Nat, <<j, t, y>> \in A
        PROVE  /\ t =< disk[j].term /\ LedTo(M, t, y)
               /\ Shows(disk, M, A, disk[j], t, y) /\ Shows(disk, M, A, node[j], t, y)
    <3>1. /\ t =< disk[j].term /\ LedTo(K, t, y)
          /\ Shows(disk, K, A, disk[j], t, y) /\ Shows(disk, K, A, node[j], t, y)
      BY <1>2, <2>1 DEF AcksHold
    <3>2. node[j].log \in Seq(Entry) /\ disk[j].log \in Seq(Entry)
      BY LogTypes
    <3> QED
      BY <1>7, <3>1, <3>2
  <2>2. ASSUME NEW j \in Node, NEW m \in Message, Waits(node[j], m)
        PROVE  /\ m.from = j /\ disk[j].term =< m.term /\ m.term =< node[j].term
               /\ LedTo(M, m.term, m.index)
               /\ Shows(disk, M, A, node[j], m.term, m.index)
    <3>1. /\ m.from = j /\ disk[j].term =< m.term /\ m.term =< node[j].term
          /\ LedTo(K, m.term, m.index)
          /\ Shows(disk, K, A, node[j], m.term, m.index)
      BY <1>2, <2>2 DEF AcksHold
    <3>2. node[j].log \in Seq(Entry) /\ m.term \in Nat /\ m.index \in Nat
      BY <2>2, LogTypes, AckFields DEF Waits
    <3> QED
      BY <1>7, <3>1, <3>2
  <2> QED
    BY <1>2, <2>1, <2>2 DEF AcksHold
<1>9. VotesRespect(M, A)
  <2>1. ASSUME NEW g \in AllMsgs, NEW t \in Nat, NEW y \in Nat, NEW r \in M, NEW k \in Nat,
               IsGrant(g), t < g.term, AckedBy(A, g.from, t, y), r.term = t, k =< y,
               Firm(disk, A, r, k)
        PROVE  \E v \in msgs : /\ v.type = "MsgVote" /\ v.from = g.to /\ v.term = g.term
                               /\ Reaches(v, t, k)
    <3>1. CASE r \in K
      BY <1>2, <2>1, <3>1 DEF VotesRespect
    <3>2. CASE r = s
      <4>1. LedTo(K, t, y)
        <5>1. g \in Message /\ g.from \in Node
          BY <2>1, AllMsgsType
        <5> QED
          BY <1>2, <2>1, <5>1 DEF AckedBy, AcksHold
      <4>2. PICK p \in K : p.term = t /\ y =< Len(p.log)
        BY <4>1 DEF LedTo
      <4>3. w \in K /\ k =< Len(log)
        BY <1>1, <1>3, <2>1, <3>2, <4>2, LeaderLogTypes
      <4>4. Firm(disk, A, w, k)
        BY <1>1, <1>3, <2>1, <3>2, <4>3 DEF Firm, Own
      <4>5. w.term = t
        BY <1>3, <2>1, <3>2
      <4> QED
        BY <1>2, <2>1, <4>3, <4>4, <4>5 DEF VotesRespect
    <3> QED
      BY <3>1, <3>2
  <2> QED
    BY <2>1 DEF VotesRespect
<1>10. CommitsHold(M, A)
  <2>1. \A t \in Nat : \A x : \A c : Done(K, A, t, x, c) => Done(M, A, t, x, c)
    BY DEF Done
  <2>2. \A j \in Node : node[j].term \in Nat /\ disk[j].term \in Nat
    BY LogTypes
  <2>3. \A m \in AllMsgs : m.type = "MsgApp" \/ m.type = "MsgHeartbeat" => m.term \in Nat
    BY AllMsgsType
  <2> HIDE DEF M
  <2>4. K \subseteq M
    BY DEF M
  <2> QED
    BY <1>2, <2>1, <2>2, <2>3, <2>4 DEF CommitsHold
<1>11. History(G, M, A)
  BY <1>2, <1>4, <1>5, <1>6, <1>8, <1>9, <1>10 DEF History
<1> QED
  BY <1>11 DEF G, M, s, L

-----------------------------------------------------------------------------
(***************************************************************************)
(* A candidate with a quorum.                                              *)
(***************************************************************************)

\* A vote that was cast in a term keeps its sender in that term or later ones
LEMMA GrantTerm ==
    ASSUME ElectionInv, NEW g \in AllMsgs, IsGrant(g)
    PROVE  /\ g.term =< node[g.from].term
           /\ g \in msgs => g.term =< disk[g.from].term
<1>1. g.from \in Node /\ g.term \in Nat
  BY AllMsgsType
<1>2. /\ node[g.from].term \in Nat /\ disk[g.from].term \in Nat
      /\ disk[g.from].term =< node[g.from].term
  BY <1>1, LogTypes
<1>3. CASE g \in msgs
  <2>1. Holds(disk[g.from], g.term, VoteOf(g))
    BY <1>3 DEF ElectionInv, BallotsHold, IsBallot
  <2> QED
    BY <1>1, <1>2, <2>1 DEF Holds
<1>4. CASE g \notin msgs
  <2>1. PICK j \in Node : g \in node[j].outbox
    BY <1>4 DEF AllMsgs
  <2>2. g.from = j /\ Holds(node[j], g.term, VoteOf(g))
    BY <2>1 DEF ElectionInv, BallotsHold, IsBallot
  <2> QED
    BY <1>1, <1>2, <1>4, <2>2 DEF Holds
<1> QED
  BY <1>3, <1>4

\* A log that is up to date with an entry that may become committed has it
LEMMA UpToDateHas ==
    ASSUME NEW H \in SUBSET Seq(Entry), NEW K \in SUBSET LeaderLog, NEW A,
           LogsWritten(H, K), LeadersWrote(H, K), LeadersHave(K, A), NEW log \in H,
           NEW r \in K, NEW k \in Nat, Firm(disk, A, r, k),
           \/ TermAt(log, Len(log)) > r.term
           \/ TermAt(log, Len(log)) = r.term /\ Len(log) >= k
    PROVE  Has(log, r.log, k)
<1> DEFINE l == Len(log)
<1>1. /\ r.term \in Nat /\ r.term >= 1 /\ r.log \in Seq(Entry) /\ log \in Seq(Entry)
      /\ l \in Nat /\ k \in 1..Len(r.log) /\ r.log[k].term = r.term
  BY LeaderLogTypes DEF LeadersWrote, Firm, Own
<1>2. l \in 1..Len(log) /\ TermAt(log, l) = log[l].term
  BY <1>1 DEF TermAt
<1>3. PICK q \in K : q.term = log[l].term /\ Has(log, q.log, l)
  BY <1>2 DEF LogsWritten
<1>4. /\ q.term \in Nat /\ q.log \in Seq(Entry) /\ l =< Len(q.log) /\ log[l] = q.log[l]
      /\ Len(q.log) \in Nat
  BY <1>2, <1>3, LeaderLogTypes DEF Has
<1>5. CASE q.term = r.term
  <2>1. l >= k
    BY <1>1, <1>2, <1>3, <1>5
  <2>2. Has(q.log, r.log, k)
    BY <1>1, <1>4, <1>5, <2>1, SameTermHas
  <2> QED
    BY <1>1, <1>3, <1>4, <2>1, <2>2, HasLess, HasTrans
<1>6. CASE q.term # r.term
  <2>1. r.term < q.term
    BY <1>1, <1>2, <1>3, <1>4, <1>6
  <2>2. Has(q.log, r.log, k)
    BY <2>1 DEF LeadersHave
  <2>3. k =< Len(q.log) /\ q.log[k] = r.log[k]
    BY <1>1, <2>2 DEF Has
  <2>4. k =< l
    <3> SUFFICES ASSUME l < k
                 PROVE  FALSE
      BY <1>1
    <3>1. Sorted(q.log)
      BY DEF LogsWritten, LeadersWrote
    <3>2. k \in 1..Len(q.log) /\ l \in 1..Len(q.log) /\ l =< k
      BY <1>1, <1>2, <1>4, <2>3
    <3>3. q.log[l].term =< q.log[k].term
      BY <3>1, <3>2 DEF Sorted
    <3> QED
      BY <1>1, <1>3, <1>4, <2>1, <2>3, <3>3
  <2> QED
    BY <1>1, <1>3, <1>4, <2>2, <2>4, HasLess, HasTrans
<1> QED
  BY <1>5, <1>6

\* Whoever is elected has what may be committed
LEMMA ElectedHas ==
    ASSUME ElectionInv, NEW H \in SUBSET Seq(Entry), Explains(H),
           NEW K \in SUBSET LeaderLog, NEW A \in SUBSET StoredAck, History(H, K, A),
           NEW i \in Node, node[i].state = "Candidate", disk[i].term = node[i].term,
           Supporters(i, node[i].term) \in Quorum,
           NEW r \in K, NEW k \in Nat, r.term < node[i].term, Firm(disk, A, r, k)
    PROVE  Has(node[i].log, r.log, k)
<1> DEFINE n == node[i]
           T == n.term
<1>1. /\ T \in Nat /\ n.log \in Seq(Entry) /\ r.term \in Nat /\ r.term >= 1
      /\ n.log \in H /\ k \in 1..Len(r.log)
  BY LogTypes, LeaderLogTypes DEF Explains, History, LeadersWrote, Firm, Own
<1>2. PICK Q \in Quorum : \A j \in Q : Acked(A, j, r.term, k) \/ disk[j].term =< r.term
  BY DEF Firm, Choosable
<1>3. PICK j \in Q \cap Supporters(i, T) : TRUE
  BY QuorumsMeet
<1>4. j \in Node /\ disk[j].term \in Nat
  BY <1>3, LogTypes DEF Quorum
<1>5. ASSUME disk[j].term >= T
      PROVE  \E x \in Nat : x >= k /\ <<j, r.term, x>> \in A
  <2>1. ~(disk[j].term =< r.term)
    BY <1>1, <1>4, <1>5
  <2> QED
    BY <1>2, <1>3, <2>1 DEF Acked
<1>6. CASE j = i
  <2>1. PICK x \in Nat : x >= k /\ <<i, r.term, x>> \in A
    BY <1>1, <1>4, <1>5, <1>6
  <2>2. Shows(disk, K, A, n, r.term, x)
    BY <1>1, <2>1 DEF History, AcksHold
  <2>3. k =< x /\ k =< Len(r.log)
    BY <1>1, <2>1
  <2> QED
    BY <2>2, <2>3 DEF Shows
<1>7. CASE Granted(j, T, i)
  <2>1. PICK g \in msgs : IsGrant(g) /\ g.from = j /\ g.term = T /\ g.to = i
    BY <1>7 DEF Granted
  <2>2. g \in AllMsgs /\ disk[j].term >= T
    BY <1>1, <1>4, <2>1, GrantTerm DEF AllMsgs
  <2>3. PICK x \in Nat : x >= k /\ <<j, r.term, x>> \in A
    BY <1>5, <2>2
  <2>4. AckedBy(A, g.from, r.term, x) /\ k =< x
    BY <1>1, <2>1, <2>3 DEF AckedBy
  <2>5. PICK v \in msgs : /\ v.type = "MsgVote" /\ v.from = i /\ v.term = T
                          /\ Reaches(v, r.term, k)
    BY <1>1, <2>1, <2>2, <2>4 DEF History, VotesRespect
  <2>6. v.index = LastIndex(n) /\ v.logTerm = LastTerm(n)
    BY <2>5 DEF History, RequestsTell, AllMsgs
  <2>7. \/ TermAt(n.log, Len(n.log)) > r.term
        \/ TermAt(n.log, Len(n.log)) = r.term /\ Len(n.log) >= k
    BY <2>5, <2>6 DEF Reaches, LastIndex, LastTerm
  <2> HIDE DEF n
  <2>8. Has(n.log, r.log, k)
    BY <1>1, <2>7, UpToDateHas DEF History
  <2> QED
    BY <2>8 DEF n
<1> QED
  BY <1>3, <1>6, <1>7 DEF Supporters

\* The leader counts its own log as acknowledged from the start
LEMMA AddOwnAck ==
    ASSUME ElectionInv, NEW H \in SUBSET Seq(Entry), NEW K \in SUBSET LeaderLog,
           NEW A \in SUBSET StoredAck, History(H, K, A),
           NEW i \in Node, node[i].state = "Candidate", disk[i].term = node[i].term,
           NEW y \in Nat, LedTo(K, node[i].term, y),
           \A r \in K : \A k \in Nat :
              r.term = node[i].term /\ k =< y /\ k =< Len(r.log) => Has(node[i].log, r.log, k)
    PROVE  History(H, K, A \cup {<<i, node[i].term, y>>})
<1> DEFINE T == node[i].term
           B == A \cup {<<i, T, y>>}
<1>1. T \in Nat /\ B \in SUBSET StoredAck /\ \A j \in Node : disk[j].term \in Nat
  BY LogTypes DEF StoredAck
<1>2. /\ LogsWritten(H, K) /\ LeadersWrote(H, K) /\ LeadersHave(K, A)
      /\ AcksHold(K, A) /\ RequestsTell /\ VotesRespect(K, A) /\ CommitsHold(K, A)
  BY DEF History
<1>3. \A j \in Node : \A t, z \in Nat :
         <<j, t, z>> \in B => <<j, t, z>> \in A \/ (j = i /\ t = T /\ z = y)
  OBVIOUS
<1>4. A \subseteq B /\ <<i, T, y>> \in B
  OBVIOUS
<1> HIDE DEF B
<1>5. \A r \in K : \A k \in Nat : Firm(disk, B, r, k) => Firm(disk, A, r, k)
  <2>1. \A j \in Node : \A t, z \in Nat : <<j, t, z>> \in B \ A => disk[j].term =< t
    BY <1>1, <1>3
  <2>2. \A j \in Node : disk[j].term =< disk[j].term
    BY <1>1
  <2> QED
    BY <1>1, <2>1, <2>2, FirmBefore, LeaderLogTypes
<1>6. LeadersHave(K, B)
  BY <1>2, <1>5 DEF LeadersHave
<1>7. \A s : \A t, z \in Nat : Shows(disk, K, A, s, t, z) => Shows(disk, K, B, s, t, z)
  BY <1>5, ShowsBefore
<1>8. AcksHold(K, B)
  <2>1. ASSUME NEW j \in Node, NEW t \in Nat, NEW z \in Nat, <<j, t, z>> \in B
        PROVE  /\ t =< disk[j].term /\ LedTo(K, t, z)
               /\ Shows(disk, K, B, disk[j], t, z) /\ Shows(disk, K, B, node[j], t, z)
    <3>1. CASE <<j, t, z>> \in A
      BY <1>2, <1>7, <3>1 DEF AcksHold
    <3>2. CASE j = i /\ t = T /\ z = y
      <4>1. disk[i].log = node[i].log
        BY <1>2 DEF LogsWritten
      <4>2. Shows(disk, K, B, disk[i], T, y) /\ Shows(disk, K, B, node[i], T, y)
        BY <4>1 DEF Shows
      <4> QED
        BY <1>1, <3>2, <4>2
    <3> QED
      BY <1>3, <2>1, <3>1, <3>2
  <2>2. ASSUME NEW j \in Node, NEW m \in Message, Waits(node[j], m)
        PROVE  /\ m.from = j /\ disk[j].term =< m.term /\ m.term =< node[j].term
               /\ LedTo(K, m.term, m.index)
               /\ Shows(disk, K, B, node[j], m.term, m.index)
    <3>1. m.term \in Nat /\ m.index \in Nat
      BY <2>2, AckFields DEF Waits
    <3> QED
      BY <1>2, <1>7, <2>2, <3>1 DEF AcksHold
  <2>3. /\ \A m \in msgs : IsAck(m) => <<m.from, m.term, m.index>> \in B
        /\ \A j \in Node : \A k \in 1..Len(node[j].steps) :
              LET m == node[j].steps[k] IN IsAck(m) => <<j, m.term, m.index>> \in B
    BY <1>2, <1>4 DEF AcksHold
  <2> QED
    BY <2>1, <2>2, <2>3 DEF AcksHold
<1>9. VotesRespect(K, B)
  <2>1. ASSUME NEW g \in AllMsgs, NEW t \in Nat, NEW z \in Nat, NEW r \in K, NEW k \in Nat,
               IsGrant(g), t < g.term, AckedBy(B, g.from, t, z), r.term = t, k =< z,
               Firm(disk, B, r, k)
        PROVE  \E v \in msgs : /\ v.type = "MsgVote" /\ v.from = g.to /\ v.term = g.term
                               /\ Reaches(v, t, k)
    <3>1. g.from \in Node /\ g.term \in Nat /\ g.term =< node[g.from].term
      BY <2>1, AllMsgsType, GrantTerm
    <3>2. ~(g.from = i /\ t = T)
      BY <1>1, <2>1, <3>1
    <3>3. AckedBy(A, g.from, t, z)
      BY <1>3, <2>1, <3>1, <3>2 DEF AckedBy
    <3> QED
      BY <1>2, <1>5, <2>1, <3>3 DEF VotesRespect
  <2> QED
    BY <2>1 DEF VotesRespect
<1>10. CommitsHold(K, B)
  <2>1. \A t, x, c : Done(K, A, t, x, c) => Done(K, B, t, x, c)
    BY <1>4, ChosenMore DEF Done
  <2>2. \A j, t, k : Acked(A, j, t, k) => Acked(B, j, t, k)
    BY <1>4 DEF Acked
  <2> QED
    BY <1>2, <2>1, <2>2 DEF CommitsHold
<1>11. History(H, K, B)
  BY <1>2, <1>6, <1>8, <1>9, <1>10 DEF History
<1> QED
  BY <1>11 DEF B, T

-----------------------------------------------------------------------------
(***************************************************************************)
(* A change of one node, in general.                                       *)
(***************************************************************************)

\* The beginning of a log joins the others
LEMMA HistoryTakes ==
    ASSUME NEW H \in SUBSET Seq(Entry), NEW K \in SUBSET LeaderLog, NEW A, History(H, K, A),
           NEW L \in Seq(Entry), NEW h \in H, IsPart(L, h)
    PROVE  History(H \cup {L}, K, A)
<1>1. /\ Len(L) \in Nat /\ Len(h) \in Nat /\ Len(L) =< Len(h) /\ h \in Seq(Entry)
      /\ \A k \in 1..Len(L) : k \in 1..Len(h) /\ L[k] = h[k]
  BY DEF IsPart
<1>2. LogsWritten(H, K) /\ LeadersWrote(H, K)
  BY DEF History
<1>3. Sorted(L)
  <2>1. Sorted(h)
    BY <1>2 DEF LogsWritten
  <2> QED
    BY <1>1, <2>1 DEF Sorted
<1>4. ASSUME NEW k \in 1..Len(L)
      PROVE  \E r \in K : r.term = L[k].term /\ Has(L, r.log, k)
  <2>1. k \in 1..Len(h) /\ L[k] = h[k] /\ k \in Nat
    BY <1>1
  <2>2. PICK r \in K : r.term = h[k].term /\ Has(h, r.log, k)
    BY <1>2, <2>1 DEF LogsWritten
  <2>3. Has(L, h, k)
    BY <1>1 DEF Has
  <2>4. Has(L, r.log, k)
    BY <1>1, <2>1, <2>2, <2>3, HasTrans, LeaderLogTypes
  <2> QED
    BY <2>1, <2>2, <2>4
<1>5. LogsWritten(H \cup {L}, K)
  BY <1>2, <1>3, <1>4 DEF LogsWritten
<1>6. LeadersWrote(H \cup {L}, K)
  BY <1>2 DEF LeadersWrote
<1> QED
  BY <1>5, <1>6 DEF History

\* What is committed up to c is committed up to d
LEMMA DoneLess ==
    ASSUME NEW K \in SUBSET LeaderLog, NEW A, NEW t, NEW log \in Seq(Entry), NEW c \in Nat,
           NEW d \in Nat, d =< c, Done(K, A, t, log, c)
    PROVE  Done(K, A, t, log, d)
<1>1. CASE c = 0
  <2>1. d = 0
    BY <1>1
  <2> QED
    BY <2>1 DEF Done
<1>2. ASSUME NEW r \in K, NEW x \in Nat, r.term =< t, c =< x, Own(r, x),
             IsChosen(A, r.term, x), Has(log, r.log, c)
      PROVE  Done(K, A, t, log, d)
  <2>1. d =< x
    BY <1>2
  <2>2. Has(log, r.log, d)
    BY <1>2, HasLess, LeaderLogTypes
  <2> QED
    BY <1>2, <2>1, <2>2 DEF Done
<1> QED
  BY <1>1, <1>2 DEF Done

\* What the new state o of node i must be for the invariant to hold with the same logs and
\* acknowledgements
Fits(H, K, A, i, o) ==
    /\ o.log \in H /\ \A k \in 1..Len(o.log) : o.log[k].term =< o.term
    /\ o.state = "Candidate" => o.log = node[i].log
    /\ \A t, y \in Nat : AckedBy(A, i, t, y) => Shows(disk, K, A, o, t, y)
    /\ \A m \in Message : Waits(o, m) =>
          \/ Waits(node[i], m)
          \/ /\ m.from = i /\ m.term = o.term /\ LedTo(K, o.term, m.index)
             /\ Shows(disk, K, A, o, o.term, m.index)
    /\ Done(K, A, o.term, o.log, o.commit)
    /\ Counts(K, A, o)

\* A vote for who has the entry, as everybody who votes compares the logs
LEMMA ComparesReaches ==
    ASSUME NEW n, n.log \in Seq(Entry), Sorted(n.log), NEW v, NEW t \in Nat, t >= 1,
           v.logTerm \in Nat, v.index \in Nat,
           NEW k \in Nat, k \in 1..Len(n.log), n.log[k].term = t,
           IsUpToDate(n, v.index, v.logTerm)
    PROVE  Reaches(v, t, k)
<1>1. Len(n.log) \in 1..Len(n.log) /\ k =< Len(n.log) /\ Len(n.log) \in Nat
  OBVIOUS
<1>2. LastTerm(n) = n.log[Len(n.log)].term /\ LastIndex(n) = Len(n.log)
  BY <1>1 DEF LastTerm, LastIndex, TermAt
<1>3. LastTerm(n) >= t /\ LastTerm(n) \in Nat
  BY <1>1, <1>2, EntryTerm DEF Sorted
<1>4. CASE v.logTerm > LastTerm(n)
  BY <1>3, <1>4 DEF Reaches
<1>5. CASE v.logTerm = LastTerm(n) /\ v.index >= LastIndex(n)
  BY <1>1, <1>2, <1>3, <1>5 DEF Reaches
<1> QED
  BY <1>4, <1>5 DEF IsUpToDate

\* What is the same before and after a change of node i
LEMMA BecomeFrame ==
    ASSUME ElectionInv, NEW i \in Node, NEW o \in NodeState, Become(i, o)
    PROVE  /\ disk' = disk /\ msgs' = msgs
           /\ node'[i] = o /\ \A j \in Node \ {i} : node'[j] = node[j]
           /\ \A m \in AllMsgs' : m \in AllMsgs \/ m \in o.outbox \ node[i].outbox
<1>1. /\ disk' = disk /\ msgs' = msgs
      /\ node'[i] = o /\ \A j \in Node \ {i} : node'[j] = node[j]
  BY DEF Become, ElectionInv, TypeOK
<1>2. \A m \in AllMsgs' : m \in AllMsgs \/ m \in o.outbox \ node[i].outbox
  BY <1>1 DEF AllMsgs
<1> QED
  BY <1>1, <1>2

\* Acknowledgements
LEMMA MoveAcks ==
    ASSUME ElectionInv, NEW H \in SUBSET Seq(Entry), NEW K \in SUBSET LeaderLog,
           NEW A \in SUBSET StoredAck, AcksHold(K, A),
           NEW i \in Node, NEW o \in NodeState, Become(i, o),
           LogStep(i, node[i], o), Roles(i, node[i], o), Fits(H, K, A, i, o)
    PROVE  AcksHold(K, A)'
<1> DEFINE n == node[i]
<1>1. /\ disk' = disk /\ msgs' = msgs
      /\ node'[i] = o /\ \A j \in Node \ {i} : node'[j] = node[j]
  BY BecomeFrame
<1>2. /\ n.term \in Nat /\ o.term \in Nat /\ disk[i].term \in Nat /\ disk[i].term =< n.term
      /\ n.term =< o.term
  BY LogTypes DEF NodeState, Roles
<1>3. ASSUME NEW j \in Node, NEW t \in Nat, NEW y \in Nat, <<j, t, y>> \in A
      PROVE  /\ t =< disk[j].term /\ LedTo(K, t, y)
             /\ Shows(disk, K, A, disk[j], t, y)
             /\ Shows(disk, K, A, node'[j], t, y)
  <2>1. /\ t =< disk[j].term /\ LedTo(K, t, y)
        /\ Shows(disk, K, A, disk[j], t, y)
        /\ Shows(disk, K, A, node[j], t, y)
    BY <1>3 DEF AcksHold
  <2>2. CASE j = i
    BY <1>1, <1>3, <2>1, <2>2 DEF Fits, AckedBy
  <2>3. CASE j # i
    BY <1>1, <2>1, <2>3
  <2> QED
    BY <2>2, <2>3
<1>4. ASSUME NEW j \in Node, NEW m \in Message, Waits(node'[j], m)
      PROVE  /\ m.from = j /\ disk[j].term =< m.term /\ m.term =< node'[j].term
             /\ LedTo(K, m.term, m.index)
             /\ Shows(disk, K, A, node'[j], m.term, m.index)
  <2>1. m.term \in Nat /\ m.index \in Nat
    BY <1>4, AckFields DEF Waits
  <2>2. CASE j # i
    BY <1>1, <1>4, <2>2 DEF AcksHold
  <2>3. CASE j = i /\ Waits(n, m)
    <3>1. /\ m.from = i /\ disk[i].term =< m.term /\ m.term =< n.term
          /\ LedTo(K, m.term, m.index)
      BY <2>3 DEF AcksHold
    <3>2. AckedBy(A, i, m.term, m.index)
      BY <2>3 DEF AckedBy
    <3>3. Shows(disk, K, A, o, m.term, m.index)
      BY <2>1, <3>2 DEF Fits
    <3>4. m.term =< o.term
      BY <1>2, <2>1, <3>1
    <3> QED
      BY <1>1, <2>3, <3>1, <3>3, <3>4
  <2>4. CASE j = i /\ ~Waits(n, m)
    <3>1. /\ m.from = i /\ m.term = o.term /\ LedTo(K, o.term, m.index)
          /\ Shows(disk, K, A, o, o.term, m.index)
      BY <1>1, <1>4, <2>4 DEF Fits
    <3>2. disk[i].term =< o.term /\ o.term =< o.term
      BY <1>2
    <3> QED
      BY <1>1, <2>4, <3>1, <3>2
  <2> QED
    BY <2>2, <2>3, <2>4
<1>5. ASSUME NEW j \in Node, NEW k \in 1..Len(node'[j].steps), IsAck(node'[j].steps[k])
      PROVE  <<j, node'[j].steps[k].term, node'[j].steps[k].index>> \in A
  <2>1. CASE j # i
    BY <1>1, <1>5, <2>1 DEF AcksHold
  <2>2. CASE j = i
    <3>1. PICK l \in 1..Len(n.steps) : o.steps[k] = n.steps[l]
      BY <1>1, <1>5, <2>2 DEF LogStep
    <3>2. IsAck(n.steps[l]) => <<i, n.steps[l].term, n.steps[l].index>> \in A
      BY DEF AcksHold
    <3> HIDE DEF n
    <3> QED
      BY <1>1, <1>5, <2>2, <3>1, <3>2
  <2> QED
    BY <2>1, <2>2
<1>6. \A m \in msgs' : IsAck(m) => <<m.from, m.term, m.index>> \in A
  BY <1>1 DEF AcksHold
<1> QED
  BY <1>1, <1>3, <1>4, <1>5, <1>6 DEF AcksHold

\* Requests
LEMMA MoveRequests ==
    ASSUME ElectionInv, ElectionInv', RequestsTell, NEW i \in Node, NEW o \in NodeState,
           Become(i, o), Roles(i, node[i], o), Says(i, node[i], o),
           o.state = "Candidate" => o.log = node[i].log
    PROVE  RequestsTell'
<1> DEFINE n == node[i]
<1>1. /\ disk' = disk /\ msgs' = msgs
      /\ node'[i] = o /\ \A j \in Node \ {i} : node'[j] = node[j]
      /\ \A m \in AllMsgs' : m \in AllMsgs \/ m \in o.outbox \ n.outbox
  BY BecomeFrame
<1>2. n.term \in Nat /\ o.term \in Nat
  BY LogTypes DEF NodeState
<1>3. SUFFICES ASSUME NEW m \in AllMsgs', m.type = "MsgVote",
                      node'[m.from].state = "Candidate", m.term = node'[m.from].term
               PROVE  m.index = LastIndex(node'[m.from]) /\ m.logTerm = LastTerm(node'[m.from])
  BY DEF RequestsTell
<1>4. CASE m \in AllMsgs
  <2>1. m.from \in Node /\ m.term \in Nat /\ m \in Message
    BY <1>4, AllMsgsType
  <2>2. CASE m.from # i
    BY <1>1, <1>3, <1>4, <2>1, <2>2 DEF RequestsTell
  <2>3. CASE m.from = i
    <3>1. Holds(n, m.term, VoteOf(m))
      BY <1>3, <1>4, <2>3, BallotHeld DEF IsBallot
    <3>2. ~(o.term > n.term)
      BY <1>1, <1>2, <1>3, <2>3, <3>1 DEF Holds
    <3>3. n.state = "Candidate" /\ o.term = n.term
      BY <1>1, <1>3, <2>3, <3>2 DEF Roles
    <3>4. m.index = LastIndex(n) /\ m.logTerm = LastTerm(n)
      BY <1>1, <1>3, <1>4, <2>3, <3>3 DEF RequestsTell
    <3>5. o.log = n.log
      BY <1>1, <1>3, <2>3
    <3> QED
      BY <1>1, <2>3, <3>4, <3>5 DEF LastIndex, LastTerm
  <2> QED
    BY <2>2, <2>3
<1>5. CASE m \in o.outbox \ n.outbox
  <2>1. m.from = i
    BY <1>1, <1>3, <1>5 DEF ElectionInv, BallotsHold, IsBallot
  <2>2. m.index = LastIndex(o) /\ m.logTerm = LastTerm(o)
    BY <1>3, <1>5 DEF Says
  <2> QED
    BY <1>1, <2>1, <2>2
<1> QED
  BY <1>1, <1>3, <1>4, <1>5

\* Votes
LEMMA MoveVotes ==
    ASSUME ElectionInv, ElectionInv', NEW H \in SUBSET Seq(Entry),
           NEW K \in SUBSET LeaderLog, NEW i \in Node, node[i].log \in H,
           NEW A \in SUBSET StoredAck, LogsWritten(H, K), LeadersWrote(H, K), AcksHold(K, A),
           VotesRespect(K, A), NEW o \in NodeState,
           Become(i, o), Roles(i, node[i], o), Says(i, node[i], o), Fits(H, K, A, i, o)
    PROVE  VotesRespect(K, A)'
<1> DEFINE n == node[i]
<1>1. /\ disk' = disk /\ msgs' = msgs
      /\ node'[i] = o /\ \A j \in Node \ {i} : node'[j] = node[j]
      /\ \A m \in AllMsgs' : m \in AllMsgs \/ m \in o.outbox \ n.outbox
  BY BecomeFrame
<1>2. /\ n.term \in Nat /\ o.term \in Nat /\ n.term =< o.term
      /\ n.log \in Seq(Entry) /\ n.log \in H
  BY LogTypes DEF NodeState, Roles
<1>3. ASSUME NEW t \in Nat, NEW y \in Nat, AckedBy(A, i, t, y)', t < o.term
      PROVE  AckedBy(A, i, t, y)
  <2>1. CASE <<i, t, y>> \in A
    BY <2>1 DEF AckedBy
  <2>2. ASSUME NEW m \in Message, Waits(o, m), m.term = t, m.index = y
        PROVE  AckedBy(A, i, t, y)
    <3>1. Waits(n, m)
      BY <1>2, <1>3, <2>2 DEF Fits
    <3> QED
      BY <2>2, <3>1 DEF AckedBy
  <2> QED
    BY <1>1, <1>3, <2>1, <2>2 DEF AckedBy
<1>4. SUFFICES ASSUME NEW g \in AllMsgs', NEW t \in Nat, NEW y \in Nat, NEW r \in K,
                      NEW k \in Nat, IsGrant(g), t < g.term, AckedBy(A, g.from, t, y)',
                      r.term = t, k =< y, Firm(disk, A, r, k)
               PROVE  \E v \in msgs : /\ v.type = "MsgVote" /\ v.from = g.to
                                      /\ v.term = g.term /\ Reaches(v, t, k)
  BY <1>1 DEF VotesRespect
<1>5. CASE g \in AllMsgs
  <2>1. g.from \in Node /\ g.term \in Nat /\ g.term =< node[g.from].term
    BY <1>4, <1>5, AllMsgsType, GrantTerm
  <2>2. CASE g.from # i
    <3>1. AckedBy(A, g.from, t, y)
      BY <1>1, <1>4, <2>1, <2>2 DEF AckedBy
    <3> QED
      BY <1>4, <1>5, <3>1 DEF VotesRespect
  <2>3. CASE g.from = i
    <3>1. t < o.term
      BY <1>2, <1>4, <2>1, <2>3
    <3>2. AckedBy(A, g.from, t, y)
      BY <1>3, <1>4, <2>3, <3>1
    <3> QED
      BY <1>4, <1>5, <3>2 DEF VotesRespect
  <2> QED
    BY <2>2, <2>3
<1>6. CASE g \in o.outbox \ n.outbox
  <2>1. g.from = i /\ Holds(o, g.term, VoteOf(g))
    BY <1>1, <1>4, <1>6 DEF ElectionInv, BallotsHold, IsBallot
  <2>2. g \in Message /\ g.term \in Nat
    BY <1>6, MessageFields DEF NodeState
  <2>3. t < o.term
    BY <1>2, <1>4, <2>1, <2>2 DEF Holds
  <2>4. AckedBy(A, i, t, y)
    BY <1>3, <1>4, <2>1, <2>3
  <2>5. Shows(disk, K, A, n, t, y)
    BY <2>4 DEF AckedBy, AcksHold
  <2>6. Own(r, k) /\ r.term >= 1 /\ r.log \in Seq(Entry) /\ k =< Len(r.log)
    BY <1>4, LeaderLogTypes DEF Firm, LeadersWrote, Own
  <2>7. Has(n.log, r.log, k)
    BY <1>4, <2>5, <2>6 DEF Shows
  <2>8. k \in 1..Len(n.log) /\ n.log[k].term = t
    BY <1>2, <1>4, <2>6, <2>7 DEF Has, Own
  <2>9. PICK v \in msgs : /\ v.type = "MsgVote" /\ v.from = g.to /\ v.term = g.term
                          /\ IsUpToDate(n, v.index, v.logTerm)
    BY <1>4, <1>6 DEF Says
  <2>10. v.index \in Nat /\ v.logTerm \in Nat
    <3>1. v \in Message
      BY DEF ElectionInv, TypeOK
    <3>2. v \in VoteMsg
      BY <2>9, <3>1, MessageFields
    <3> QED
      BY <3>2 DEF VoteMsg
  <2>11. Sorted(n.log)
    BY <1>2 DEF LogsWritten
  <2> HIDE DEF n
  <2>12. Reaches(v, t, k)
    BY <1>2, <1>4, <2>6, <2>8, <2>9, <2>10, <2>11, ComparesReaches
  <2> QED
    BY <2>9, <2>12
<1> QED
  BY <1>1, <1>4, <1>5, <1>6

\* What is said to be committed
LEMMA MoveCommits ==
    ASSUME ElectionInv, NEW H \in SUBSET Seq(Entry), NEW K \in SUBSET LeaderLog,
           NEW A \in SUBSET StoredAck, CommitsHold(K, A),
           NEW i \in Node, NEW o \in NodeState, Become(i, o),
           Says(i, node[i], o), Fits(H, K, A, i, o)
    PROVE  CommitsHold(K, A)'
<1> DEFINE n == node[i]
<1>1. /\ disk' = disk /\ msgs' = msgs
      /\ node'[i] = o /\ \A j \in Node \ {i} : node'[j] = node[j]
      /\ \A m \in AllMsgs' : m \in AllMsgs \/ m \in o.outbox \ n.outbox
  BY BecomeFrame
<1>2. /\ o.term \in Nat /\ o.commit \in Nat /\ o.log \in Seq(Entry)
      /\ \A j \in Node : o.prog[j].match \in Nat
  BY DEF NodeState, Progress
<1>3. Done(K, A, o.term, o.log, o.commit)
  BY DEF Fits
<1>4. ASSUME NEW m \in o.outbox \ n.outbox, m.type = "MsgApp"
      PROVE  \E s \in K : s.term = m.term /\ ShowsPart(m, s.log)
                            /\ Done(K, A, m.term, s.log, m.commit)
  <2>1. /\ o.state = "Leader" /\ m.term = o.term /\ ShowsPart(m, o.log)
        /\ m.commit =< o.commit
    BY <1>4 DEF Says
  <2>2. m.commit \in Nat
    <3>1. m \in Message
      BY <1>4 DEF NodeState
    <3>2. m \in AppMsg
      BY <1>4, <3>1, MessageFields
    <3> QED
      BY <3>2 DEF AppMsg
  <2>3. PICK s \in K : s.term = o.term /\ s.log = o.log
    BY <2>1 DEF Fits, Counts
  <2>4. Done(K, A, o.term, o.log, m.commit)
    BY <1>2, <1>3, <2>1, <2>2, DoneLess
  <2> QED
    BY <2>1, <2>3, <2>4
<1>5. ASSUME NEW m \in o.outbox \ n.outbox, m.type = "MsgHeartbeat", m.commit > 0
      PROVE  /\ \E s \in K : s.term = m.term /\ Done(K, A, m.term, s.log, m.commit)
             /\ Acked(A, m.to, m.term, m.commit)
  <2>1. /\ o.state = "Leader" /\ m.term = o.term
        /\ m.commit =< o.commit /\ m.commit =< o.prog[m.to].match
    BY <1>5 DEF Says
  <2>2. m.commit \in Nat /\ m.to \in Node
    <3>1. m \in Message
      BY <1>5 DEF NodeState
    <3>2. m \in HeartbeatMsg
      BY <1>5, <3>1, MessageFields
    <3> QED
      BY <3>2 DEF HeartbeatMsg
  <2>3. PICK s \in K : s.term = o.term /\ s.log = o.log
    BY <2>1 DEF Fits, Counts
  <2>4. Done(K, A, o.term, o.log, m.commit)
    BY <1>2, <1>3, <2>1, <2>2, DoneLess
  <2>5. o.prog[m.to].match > 0 /\ o.prog[m.to].match \in Nat
    BY <1>2, <1>5, <2>1, <2>2
  <2>6. <<m.to, o.term, o.prog[m.to].match>> \in A
    BY <2>1, <2>2, <2>5 DEF Fits, Counts
  <2>7. Acked(A, m.to, m.term, m.commit)
    BY <2>1, <2>2, <2>5, <2>6 DEF Acked
  <2> QED
    BY <2>1, <2>3, <2>4, <2>7
<1>6. \A j \in Node : /\ Done(K, A, node'[j].term, node'[j].log, node'[j].commit)
                      /\ Done(K, A, disk[j].term, disk[j].log, disk[j].commit)
  BY <1>1, <1>3 DEF CommitsHold
<1>7. \A m \in AllMsgs' : m.type = "MsgApp" =>
          \E s \in K : s.term = m.term /\ ShowsPart(m, s.log) /\ Done(K, A, m.term, s.log, m.commit)
  BY <1>1, <1>4 DEF CommitsHold
<1>8. \A m \in AllMsgs' : m.type = "MsgHeartbeat" /\ m.commit > 0 =>
          /\ \E s \in K : s.term = m.term /\ Done(K, A, m.term, s.log, m.commit)
          /\ Acked(A, m.to, m.term, m.commit)
  BY <1>1, <1>5 DEF CommitsHold
<1> QED
  BY <1>1, <1>6, <1>7, <1>8 DEF CommitsHold

\* A change that fits preserves the history
LEMMA MoveHistory ==
    ASSUME ElectionInv, ElectionInv', NEW H \in SUBSET Seq(Entry), NEW K \in SUBSET LeaderLog,
           NEW A \in SUBSET StoredAck, History(H, K, A),
           NEW i \in Node, node[i].log \in H, NEW o \in NodeState, Become(i, o),
           LogStep(i, node[i], o), Roles(i, node[i], o), Says(i, node[i], o),
           Fits(H, K, A, i, o)
    PROVE  History(H, K, A)'
<1>1. /\ disk' = disk /\ msgs' = msgs
      /\ node'[i] = o /\ \A j \in Node \ {i} : node'[j] = node[j]
  BY BecomeFrame
<1>2. /\ LogsWritten(H, K) /\ LeadersWrote(H, K) /\ LeadersHave(K, A)
      /\ AcksHold(K, A) /\ RequestsTell /\ VotesRespect(K, A) /\ CommitsHold(K, A)
  BY DEF History
<1>3. LogsWritten(H, K)'
  <2>1. o.state = "Candidate" /\ disk[i].term = o.term => disk[i].log = o.log
    <3>1. /\ node[i].term \in Nat /\ o.term \in Nat /\ disk[i].term \in Nat
          /\ disk[i].term =< node[i].term
      BY LogTypes DEF NodeState
    <3>2. node[i].state = "Candidate" /\ disk[i].term = node[i].term =>
              disk[i].log = node[i].log
      BY <1>2 DEF LogsWritten
    <3> QED
      BY <3>1, <3>2 DEF Roles, Fits
  <2>2. \A k \in 1..Len(o.log) : o.log[k].term =< o.term
    BY DEF Fits
  <2>3. ASSUME NEW j \in Node
        PROVE  /\ \A k \in 1..Len(node'[j].log) : node'[j].log[k].term =< node'[j].term
               /\ \A k \in 1..Len(disk[j].log) : disk[j].log[k].term =< disk[j].term
               /\ node'[j].state = "Candidate" /\ disk[j].term = node'[j].term =>
                     disk[j].log = node'[j].log
    <3>1. CASE j = i
      BY <1>1, <1>2, <2>1, <2>2, <3>1 DEF LogsWritten
    <3>2. CASE j # i
      BY <1>1, <1>2, <3>2 DEF LogsWritten
    <3> QED
      BY <3>1, <3>2
  <2> QED
    BY <1>1, <1>2, <2>3 DEF LogsWritten
<1>4. LeadersWrote(H, K)' /\ LeadersHave(K, A)'
  BY <1>1, <1>2 DEF LeadersWrote, LeadersHave
<1>5. AcksHold(K, A)'
  BY <1>2, MoveAcks
<1>6. RequestsTell'
  BY <1>2, MoveRequests DEF Fits
<1>7. VotesRespect(K, A)'
  BY <1>2, MoveVotes
<1>8. CommitsHold(K, A)'
  BY <1>2, MoveCommits
<1> QED
  BY <1>3, <1>4, <1>5, <1>6, <1>7, <1>8 DEF History

-----------------------------------------------------------------------------
(***************************************************************************)
(* The changes of a node fit.                                              *)
(***************************************************************************)

\* What an acknowledgement says, stored or not
LEMMA AckedShows ==
    ASSUME ElectionInv, NEW K \in SUBSET LeaderLog, NEW A \in SUBSET StoredAck, AcksHold(K, A),
           NEW i \in Node, NEW t \in Nat, NEW y \in Nat, AckedBy(A, i, t, y)
    PROVE  t =< node[i].term /\ LedTo(K, t, y) /\ Shows(disk, K, A, node[i], t, y)
<1>1. node[i].term \in Nat /\ disk[i].term \in Nat /\ disk[i].term =< node[i].term
  BY LogTypes
<1>2. CASE <<i, t, y>> \in A
  <2>1. /\ t =< disk[i].term /\ LedTo(K, t, y) /\ Shows(disk, K, A, node[i], t, y)
    BY <1>2 DEF AcksHold
  <2> QED
    BY <1>1, <2>1
<1>3. ASSUME NEW m \in Message, Waits(node[i], m), m.term = t, m.index = y
      PROVE  t =< node[i].term /\ LedTo(K, t, y) /\ Shows(disk, K, A, node[i], t, y)
  BY <1>3 DEF AcksHold
<1> QED
  BY <1>2, <1>3 DEF AckedBy

\* It says the same of a log that is kept
LEMMA KeepsShows ==
    ASSUME NEW K, NEW A, NEW n, NEW o, n.term \in Nat, o.term \in Nat, n.term =< o.term,
           o.log = n.log, NEW t \in Nat, t =< n.term, NEW y, Shows(disk, K, A, n, t, y)
    PROVE  Shows(disk, K, A, o, t, y)
<1>1. o.term = t => n.term = t
  OBVIOUS
<1> QED
  BY <1>1 DEF Shows

\* What is committed is in the log
LEMMA DoneInLog ==
    ASSUME NEW K, NEW A, NEW t, NEW log \in Seq(Entry), NEW c \in Nat, Done(K, A, t, log, c)
    PROVE  c =< Len(log)
  BY DEF Done, Has

\* The entries of a log are of terms that had a leader
LEMMA EntryTerms ==
    ASSUME NEW H, NEW K, LogsWritten(H, K), LeadersWrote(H, K), NEW h \in H,
           NEW k \in 1..Len(h)
    PROVE  h[k].term >= 1
<1>1. PICK r \in K : r.term = h[k].term
  BY DEF LogsWritten
<1> QED
  BY <1>1 DEF LeadersWrote

\* A leader speaks, or a role changes
LEMMA SpeaksFits ==
    ASSUME ElectionInv, NEW H \in SUBSET Seq(Entry), Explains(H),
           NEW K \in SUBSET LeaderLog, NEW A \in SUBSET StoredAck,
           History(H, K, A), LeadersCount(K, A), NEW i \in Node, NEW o \in NodeState,
           Roles(i, node[i], o), Speaks(i, node[i], o)
    PROVE  Fits(H, K, A, i, o)
<1> DEFINE n == node[i]
<1>1. /\ n.term \in Nat /\ o.term \in Nat /\ n.term =< o.term /\ o.log = n.log
      /\ n.log \in Seq(Entry) /\ n.log \in H /\ n.commit \in Nat /\ o.commit \in Nat
      /\ \A j \in Node : o.prog[j].match \in Nat
  BY LogTypes DEF NodeState, Progress, Roles, Speaks, Explains
<1>2. /\ LogsWritten(H, K) /\ AcksHold(K, A) /\ CommitsHold(K, A)
  BY DEF History
<1>3. \A k \in 1..Len(o.log) : o.log[k].term =< o.term
  <2> SUFFICES ASSUME NEW k \in 1..Len(o.log) PROVE o.log[k].term =< o.term
    OBVIOUS
  <2>1. n.log[k].term =< n.term /\ n.log[k].term \in Nat
    BY <1>1, <1>2, EntryTerm DEF LogsWritten
  <2> HIDE DEF n
  <2> QED
    BY <1>1, <2>1
<1>4. ASSUME NEW t \in Nat, NEW y \in Nat, AckedBy(A, i, t, y)
      PROVE  Shows(disk, K, A, o, t, y)
  <2>1. t =< n.term /\ Shows(disk, K, A, n, t, y)
    BY <1>2, <1>4, AckedShows
  <2> QED
    BY <1>1, <2>1, KeepsShows
<1>5. \A m \in Message : Waits(o, m) => Waits(n, m)
  BY DEF Speaks, NoAcks
<1>6. Counts(K, A, o)
  <2> SUFFICES ASSUME o.state = "Leader" PROVE Counts(K, A, o)
    BY DEF Counts
  <2>1. n.state = "Leader" /\ o.term = n.term /\ \A j \in Node : Heard(i, n, o, j)
    BY DEF Speaks
  <2>2. Counts(K, A, n)
    BY DEF LeadersCount
  <2>3. ASSUME NEW j \in Node, o.prog[j].match > 0
        PROVE  <<j, o.term, o.prog[j].match>> \in A
    <3>1. CASE o.prog[j].match = n.prog[j].match
      BY <2>1, <2>2, <2>3, <3>1 DEF Counts
    <3>2. ASSUME NEW m \in Message, Told(i, m), IsAck(m),
                 m.from = j, m.term = o.term, m.index = o.prog[j].match
          PROVE  <<j, o.term, o.prog[j].match>> \in A
      <4>1. CASE m \in msgs
        BY <1>2, <3>2, <4>1 DEF AcksHold
      <4>2. ASSUME NEW k \in 1..Len(n.steps), m = n.steps[k]
            PROVE  <<j, o.term, o.prog[j].match>> \in A
        <5>1. m.from = i
          BY <4>2 DEF ElectionInv, OwnAnswers
        <5>2. IsAck(n.steps[k]) => <<i, n.steps[k].term, n.steps[k].index>> \in A
          BY <1>2 DEF AcksHold
        <5> QED
          BY <3>2, <4>2, <5>1, <5>2
      <4> QED
        BY <3>2, <4>1, <4>2 DEF Told
    <3> QED
      BY <2>1, <3>1, <3>2 DEF Heard
  <2> QED
    BY <1>1, <2>1, <2>2, <2>3 DEF Counts
<1>7. Done(K, A, o.term, o.log, o.commit)
  <2>1. CASE o.commit = n.commit
    <3>1. Done(K, A, n.term, n.log, n.commit)
      BY <1>2 DEF CommitsHold
    <3>2. n.commit =< Len(n.log)
      BY <1>1, <3>1, DoneInLog
    <3>3. Has(n.log, n.log, n.commit) /\ n.commit =< n.commit
      BY <1>1, <3>2, HasSelf
    <3> HIDE DEF n
    <3> QED
      BY <1>1, <2>1, <3>1, <3>3, DoneMore
  <2>2. CASE CommitsOwn(o)
    <3>1. /\ o.state = "Leader" /\ o.commit \in 1..Len(o.log)
          /\ o.log[o.commit].term = o.term
          /\ {j \in Node : o.prog[j].match >= o.commit} \in Quorum
      BY <2>2 DEF CommitsOwn
    <3>2. PICK r \in K : r.term = o.term /\ r.log = o.log
      BY <1>6, <3>1 DEF Counts
    <3>3. ASSUME NEW j \in Node, o.prog[j].match >= o.commit
          PROVE  Acked(A, j, o.term, o.commit)
      <4>1. o.prog[j].match > 0 /\ o.prog[j].match \in Nat
        BY <1>1, <3>1, <3>3
      <4>2. <<j, o.term, o.prog[j].match>> \in A
        BY <1>6, <3>1, <4>1 DEF Counts
      <4> QED
        BY <3>3, <4>1, <4>2 DEF Acked
    <3>4. IsChosen(A, o.term, o.commit)
      BY <3>1, <3>3 DEF IsChosen
    <3>5. Has(o.log, r.log, o.commit)
      BY <1>1, <3>1, <3>2, HasSelf
    <3>6. Own(r, o.commit) /\ r.term =< o.term /\ o.commit =< o.commit
      BY <1>1, <3>1, <3>2 DEF Own
    <3> QED
      BY <1>1, <3>2, <3>4, <3>5, <3>6 DEF Done
  <2> QED
    BY <2>1, <2>2 DEF Speaks
<1> QED
  BY <1>1, <1>3, <1>4, <1>5, <1>6, <1>7 DEF Fits

\* A follower learns the commit index from a heartbeat
LEMMA BeatsFits ==
    ASSUME ElectionInv, NEW H \in SUBSET Seq(Entry), Explains(H),
           NEW K \in SUBSET LeaderLog, NEW A \in SUBSET StoredAck,
           History(H, K, A), NEW i \in Node, NEW o \in NodeState,
           Roles(i, node[i], o), Beats(i, node[i], o)
    PROVE  Fits(H, K, A, i, o)
<1> DEFINE n == node[i]
<1>1. /\ n.term \in Nat /\ o.term \in Nat /\ n.term =< o.term /\ o.log = n.log
      /\ n.log \in Seq(Entry) /\ n.log \in H /\ n.commit \in Nat /\ o.commit \in Nat
      /\ o.state = "Follower"
  BY LogTypes DEF NodeState, Roles, Beats, Explains
<1>2. /\ LogsWritten(H, K) /\ LeadersWrote(H, K) /\ LeadersHave(K, A)
      /\ AcksHold(K, A) /\ CommitsHold(K, A)
  BY DEF History
<1>3. \A k \in 1..Len(o.log) : o.log[k].term =< o.term
  <2> SUFFICES ASSUME NEW k \in 1..Len(o.log) PROVE o.log[k].term =< o.term
    OBVIOUS
  <2>1. n.log[k].term =< n.term /\ n.log[k].term \in Nat
    BY <1>1, <1>2, EntryTerm DEF LogsWritten
  <2> HIDE DEF n
  <2> QED
    BY <1>1, <2>1
<1>4. ASSUME NEW t \in Nat, NEW y \in Nat, AckedBy(A, i, t, y)
      PROVE  Shows(disk, K, A, o, t, y)
  <2>1. t =< n.term /\ Shows(disk, K, A, n, t, y)
    BY <1>2, <1>4, AckedShows
  <2> QED
    BY <1>1, <2>1, KeepsShows
<1>5. \A m \in Message : Waits(o, m) => Waits(n, m)
  BY DEF Beats, NoAcks
<1>6. Done(K, A, o.term, o.log, o.commit)
  <2>1. PICK m \in msgs : /\ m.type = "MsgHeartbeat" /\ m.to = i /\ m.term = o.term
                          /\ o.commit = m.commit /\ m.commit > 0
    BY DEF Beats
  <2>2. /\ \E s \in K : s.term = m.term /\ Done(K, A, m.term, s.log, m.commit)
        /\ Acked(A, m.to, m.term, m.commit)
    BY <1>2, <2>1 DEF CommitsHold, AllMsgs
  <2>3. PICK s \in K : s.term = o.term /\ Done(K, A, o.term, s.log, o.commit)
    BY <2>1, <2>2
  <2>4. PICK x \in Nat : x >= o.commit /\ <<i, o.term, x>> \in A
    BY <2>1, <2>2 DEF Acked
  <2>5. AckedBy(A, i, o.term, x)
    BY <2>4 DEF AckedBy
  <2>6. o.term =< n.term /\ LedTo(K, o.term, x) /\ Shows(disk, K, A, n, o.term, x)
    BY <1>1, <1>2, <2>5, AckedShows
  <2>7. PICK r \in K : r.term = o.term /\ x =< Len(r.log)
    BY <2>6 DEF LedTo
  <2>8. /\ r.log \in Seq(Entry) /\ Len(r.log) \in Nat /\ s.log \in Seq(Entry)
    BY LeaderLogTypes
  <2>9. o.commit =< x /\ o.commit =< Len(r.log) /\ n.term = o.term
    BY <1>1, <2>4, <2>6, <2>7, <2>8
  <2>10. Has(n.log, r.log, o.commit)
    BY <1>1, <2>6, <2>7, <2>9 DEF Shows
  <2>11. o.term =< r.term
    BY <1>1, <2>7
  <2>12. Has(s.log, r.log, o.commit)
    BY <1>1, <1>2, <2>3, <2>8, <2>9, <2>11, DoneThen
  <2>13. Has(n.log, s.log, o.commit)
    BY <1>1, <2>8, <2>10, <2>12, HasSym, HasTrans
  <2>14. o.term =< o.term /\ o.commit =< o.commit
    BY <1>1
  <2> HIDE DEF n
  <2> QED
    BY <1>1, <2>3, <2>8, <2>13, <2>14, DoneMore
<1>7. Counts(K, A, o)
  BY <1>1 DEF Counts
<1> QED
  BY <1>1, <1>3, <1>4, <1>5, <1>6, <1>7 DEF Fits

\* The leader's log that a MsgApp is from
Source(K, A, m, s) ==
    /\ s.term = m.term /\ ShowsPart(m, s.log) /\ Done(K, A, m.term, s.log, m.commit)

\* A follower that has more than the message answers with its commit index
LEMMA TakesNothingFits ==
    ASSUME ElectionInv, NEW H \in SUBSET Seq(Entry), Explains(H),
           NEW K \in SUBSET LeaderLog, NEW A \in SUBSET StoredAck,
           History(H, K, A), NEW i \in Node, NEW o \in NodeState,
           Roles(i, node[i], o), o.state = "Follower",
           o.log = node[i].log, o.commit = node[i].commit,
           AcksUpTo(i, node[i], o, node[i].commit),
           NEW s \in K, s.term = o.term
    PROVE  Fits(H, K, A, i, o)
<1> DEFINE n == node[i]
<1>1. /\ n.term \in Nat /\ o.term \in Nat /\ n.term =< o.term /\ o.log = n.log
      /\ n.log \in Seq(Entry) /\ n.log \in H /\ n.commit \in Nat /\ o.commit = n.commit
  BY LogTypes DEF NodeState, Roles, Explains
<1>2. /\ LogsWritten(H, K) /\ LeadersWrote(H, K) /\ LeadersHave(K, A)
      /\ AcksHold(K, A) /\ CommitsHold(K, A)
  BY DEF History
<1>3. \A k \in 1..Len(o.log) : o.log[k].term =< o.term
  <2> SUFFICES ASSUME NEW k \in 1..Len(o.log) PROVE o.log[k].term =< o.term
    OBVIOUS
  <2>1. n.log[k].term =< n.term /\ n.log[k].term \in Nat
    BY <1>1, <1>2, EntryTerm DEF LogsWritten
  <2> HIDE DEF n
  <2> QED
    BY <1>1, <2>1
<1>4. ASSUME NEW t \in Nat, NEW y \in Nat, AckedBy(A, i, t, y)
      PROVE  Shows(disk, K, A, o, t, y)
  <2>1. t =< n.term /\ Shows(disk, K, A, n, t, y)
    BY <1>2, <1>4, AckedShows
  <2> QED
    BY <1>1, <2>1, KeepsShows
<1>5. Done(K, A, n.term, n.log, n.commit)
  BY <1>2 DEF CommitsHold
<1>6. Done(K, A, o.term, o.log, o.commit)
  <2>1. n.commit =< Len(n.log)
    BY <1>1, <1>5, DoneInLog
  <2>2. Has(n.log, n.log, n.commit) /\ n.commit =< n.commit
    BY <1>1, <2>1, HasSelf
  <2> HIDE DEF n
  <2> QED
    BY <1>1, <1>5, <2>2, DoneMore
<1>7. ASSUME NEW m \in Message, Waits(o, m), ~Waits(n, m)
      PROVE  /\ m.from = i /\ m.term = o.term /\ LedTo(K, o.term, m.index)
             /\ Shows(disk, K, A, o, o.term, m.index)
  <2>1. m.from = i /\ m.term = o.term /\ m.index = n.commit
    BY <1>7 DEF AcksUpTo
  <2>2. m.index > 0
    BY <1>7, AckFields DEF Waits
  <2>3. n.term =< s.term
    BY <1>1
  <2>4. \E r \in K : r.term = s.term /\ n.commit =< Len(r.log)
    BY <1>1, <1>2, <1>5, <2>1, <2>2, <2>3, DoneThen
  <2>5. ASSUME NEW r \in K, NEW k \in Nat, r.term = o.term, k =< n.commit, k =< Len(r.log)
        PROVE  Has(o.log, r.log, k)
    <3>1. n.term =< r.term
      BY <1>1, <2>5
    <3>2. Has(n.log, r.log, k)
      BY <1>1, <1>2, <1>5, <2>5, <3>1, DoneThen
    <3> QED
      BY <3>2
  <2>6. Shows(disk, K, A, o, o.term, m.index)
    BY <2>1, <2>5 DEF Shows
  <2>7. LedTo(K, o.term, m.index)
    BY <2>1, <2>4 DEF LedTo
  <2> QED
    BY <2>1, <2>6, <2>7
<1>8. Counts(K, A, o)
  BY DEF Counts
<1> QED
  BY <1>1, <1>3, <1>4, <1>6, <1>7, <1>8 DEF Fits

\* A follower takes what a leader of its term sent
LEMMA TakesEntriesFits ==
    ASSUME ElectionInv, NEW H \in SUBSET Seq(Entry), Explains(H),
           NEW K \in SUBSET LeaderLog, NEW A \in SUBSET StoredAck,
           History(H, K, A), NEW i \in Node, NEW o \in NodeState,
           Roles(i, node[i], o), o.state = "Follower",
           NEW m \in AppMsg, m.term = o.term, MatchTerm(node[i].log, m.index, m.logTerm),
           o.log = AppendAfter(node[i].log, m.index, m.entries),
           \/ o.commit = node[i].commit
           \/ o.commit =< m.commit /\ o.commit =< m.index + Len(m.entries),
           AcksUpTo(i, node[i], o, m.index + Len(m.entries)),
           NEW s \in K, Source(K, A, m, s)
    PROVE  /\ Fits(H \cup {o.log}, K, A, i, o)
           /\ \E h \in H : IsPart(o.log, h)
<1> DEFINE n == node[i]
           y == m.index + Len(m.entries)
<1>1. /\ n.term \in Nat /\ o.term \in Nat /\ n.term =< o.term
      /\ n.log \in Seq(Entry) /\ n.log \in H /\ n.commit \in Nat /\ o.commit \in Nat
      /\ o.log \in Seq(Entry) /\ Len(n.log) \in Nat
  BY LogTypes DEF NodeState, Roles, Explains
<1>2. /\ LogsWritten(H, K) /\ LeadersWrote(H, K) /\ LeadersHave(K, A)
      /\ AcksHold(K, A) /\ CommitsHold(K, A)
  BY DEF History
<1>3. /\ s.term = o.term /\ s.log \in Seq(Entry) /\ Len(s.log) \in Nat /\ s.log \in H
      /\ ShowsPart(m, s.log) /\ IsSlice(m, s.log) /\ m.logTerm = TermAt(s.log, m.index)
      /\ Done(K, A, o.term, s.log, m.commit)
      /\ Agree(n.log, s.log)
  BY <1>1, <1>2, LeaderLogTypes DEF Source, LeadersWrote, ShowsPart, Explains
<1>4. /\ m.index \in Nat /\ m.entries \in Seq(Entry) /\ Len(m.entries) \in Nat
      /\ m.commit \in Nat /\ y \in Nat
  BY DEF AppMsg
<1>5. o.log = n.log \/ IsPart(o.log, s.log)
  BY <1>1, <1>3, MergeIsPart
<1>6. \A k \in 1..Len(o.log) : o.log[k].term =< o.term
  <2> SUFFICES ASSUME NEW k \in 1..Len(o.log) PROVE o.log[k].term =< o.term
    OBVIOUS
  <2>1. CASE o.log = n.log
    <3>1. n.log[k].term =< n.term /\ n.log[k].term \in Nat
      BY <1>1, <1>2, <2>1, EntryTerm DEF LogsWritten
    <3> HIDE DEF n
    <3> QED
      BY <1>1, <2>1, <3>1
  <2>2. CASE IsPart(o.log, s.log)
    <3>1. k \in 1..Len(s.log) /\ o.log[k] = s.log[k]
      BY <1>1, <1>3, <2>2 DEF IsPart
    <3>2. \A h \in H : Sorted(h)
      BY <1>2 DEF LogsWritten
    <3>3. s.log[k].term =< s.term
      BY <1>2, <3>1, <3>2, LeaderTerms
    <3> QED
      BY <1>3, <3>1, <3>3
  <2> QED
    BY <1>5, <2>1, <2>2
<1>7. \E h \in H : IsPart(o.log, h)
  <2>1. IsPart(n.log, n.log)
    BY <1>1 DEF IsPart
  <2> QED
    BY <1>1, <1>3, <1>5, <2>1
<1>8. ASSUME NEW w \in Seq(Entry), NEW k \in Nat, Has(n.log, w, k),
             \A x \in 1..k : x =< Len(s.log) => s.log[x] = w[x]
      PROVE  Has(o.log, w, k)
  BY <1>1, <1>3, <1>8, KeepPrefix
<1>9. ASSUME NEW t \in Nat, NEW z \in Nat, AckedBy(A, i, t, z)
      PROVE  Shows(disk, K, A, o, t, z)
  <2>1. t =< n.term /\ Shows(disk, K, A, n, t, z)
    BY <1>2, <1>9, AckedShows
  <2> SUFFICES ASSUME NEW r \in K, NEW k \in Nat, r.term = t, k =< z, k =< Len(r.log),
                      o.term = t \/ Firm(disk, A, r, k)
               PROVE  Has(o.log, r.log, k)
    BY DEF Shows
  <2>2. o.term = t => n.term = t
    BY <1>1, <2>1
  <2>3. Has(n.log, r.log, k)
    BY <2>1, <2>2 DEF Shows
  <2>4. r.log \in Seq(Entry) /\ Len(r.log) \in Nat
    BY LeaderLogTypes
  <2>5. \A x \in 1..k : x =< Len(s.log) => s.log[x] = r.log[x]
    <3> SUFFICES ASSUME NEW x \in 1..k, x =< Len(s.log)
                 PROVE  s.log[x] = r.log[x]
      OBVIOUS
    <3>1. x \in Nat /\ x =< Len(r.log) /\ x \in 1..x
      BY <2>4
    <3>2. CASE o.term = t
      <4>1. Has(s.log, r.log, x)
        BY <1>2, <1>3, <3>1, <3>2, SameTermHas
      <4> QED
        BY <3>1, <4>1 DEF Has
    <3>3. CASE o.term # t
      <4>1. r.term < s.term
        BY <1>1, <1>3, <2>1, <3>3
      <4>2. Has(s.log, r.log, k)
        BY <1>2, <3>3, <4>1 DEF LeadersHave
      <4> QED
        BY <4>2 DEF Has
    <3> QED
      BY <3>2, <3>3
  <2> QED
    BY <1>8, <2>3, <2>4, <2>5
<1>10. y > 0 => y =< Len(s.log)
  <2>1. CASE m.entries # <<>>
    BY <1>3, <2>1 DEF IsSlice
  <2>2. CASE m.entries = <<>> /\ m.index > 0
    <3>1. m.index \in 1..Len(n.log) /\ TermAt(n.log, m.index) = m.logTerm
      BY <1>1, <1>4, <2>2 DEF MatchTerm
    <3>2. n.log[m.index].term >= 1 /\ m.logTerm = n.log[m.index].term
      BY <1>1, <1>2, <3>1, EntryTerms DEF TermAt
    <3>3. m.index \in 1..Len(s.log)
      BY <1>3, <3>2 DEF TermAt
    <3> QED
      BY <1>4, <2>2, <3>3
  <2>3. CASE m.entries = <<>> /\ ~(m.index > 0)
    BY <1>4, <2>3
  <2> QED
    BY <2>1, <2>2, <2>3
<1>11. y > 0 => Has(o.log, s.log, y)
  BY <1>1, <1>3, <1>10, TakesPart
<1>12. Done(K, A, n.term, n.log, n.commit)
  BY <1>2 DEF CommitsHold
<1>13. Done(K, A, o.term, o.log, o.commit)
  <2>1. CASE o.commit = n.commit
    <3>1. Has(n.log, n.log, n.commit) /\ n.commit =< n.commit
      BY <1>1, <1>12, DoneInLog, HasSelf
    <3>2. \A x \in 1..n.commit : x =< Len(s.log) => s.log[x] = n.log[x]
      <4> SUFFICES ASSUME NEW x \in 1..n.commit, x =< Len(s.log)
                   PROVE  s.log[x] = n.log[x]
        OBVIOUS
      <4>1. x \in Nat /\ x =< n.commit /\ x \in 1..x /\ n.term =< s.term
        BY <1>1, <1>3
      <4>2. Has(n.log, s.log, x)
        BY <1>1, <1>2, <1>12, <4>1, DoneThen
      <4> QED
        BY <4>1, <4>2 DEF Has
    <3>3. Has(o.log, n.log, n.commit)
      BY <1>1, <1>8, <3>1, <3>2
    <3> HIDE DEF n
    <3> QED
      BY <1>1, <1>12, <2>1, <3>1, <3>3, DoneMore
  <2>2. CASE o.commit =< m.commit /\ o.commit =< y /\ o.commit > 0
    <3>1. y > 0
      BY <1>1, <1>4, <2>2
    <3>2. Has(o.log, s.log, o.commit)
      BY <1>1, <1>3, <1>4, <1>11, <2>2, <3>1, HasLess
    <3>3. o.term =< o.term
      BY <1>1
    <3> QED
      BY <1>1, <1>3, <1>4, <2>2, <3>2, <3>3, DoneMore
  <2>3. CASE ~(o.commit > 0)
    <3>1. o.commit = 0
      BY <1>1, <2>3
    <3> QED
      BY <3>1 DEF Done
  <2> QED
    BY <2>1, <2>2, <2>3
<1>14. ASSUME NEW a \in Message, Waits(o, a), ~Waits(n, a)
       PROVE  /\ a.from = i /\ a.term = o.term /\ LedTo(K, o.term, a.index)
              /\ Shows(disk, K, A, o, o.term, a.index)
  <2>1. a.from = i /\ a.term = o.term /\ a.index = y
    BY <1>14 DEF AcksUpTo
  <2>2. y > 0
    BY <1>14, <2>1, AckFields DEF Waits
  <2>3. LedTo(K, o.term, y)
    BY <1>3, <1>10, <2>2 DEF LedTo
  <2>4. Has(o.log, s.log, y) /\ y =< Len(s.log)
    BY <1>10, <1>11, <2>2
  <2> HIDE DEF y
  <2>5. ASSUME NEW r \in K, NEW k \in Nat, r.term = o.term, k =< y, k =< Len(r.log)
        PROVE  Has(o.log, r.log, k)
    <3>1. k =< Len(s.log) /\ r.log \in Seq(Entry) /\ k =< k
      BY <1>3, <1>4, <2>4, <2>5, LeaderLogTypes
    <3>2. Has(s.log, r.log, k)
      BY <1>2, <1>3, <2>5, <3>1, SameTermHas
    <3> QED
      BY <1>1, <1>3, <1>4, <2>4, <2>5, <3>1, <3>2, HasVia
  <2>6. Shows(disk, K, A, o, o.term, y)
    BY <2>5 DEF Shows
  <2> QED
    BY <2>1, <2>3, <2>6
<1>15. Counts(K, A, o)
  BY DEF Counts
<1>16. Fits(H \cup {o.log}, K, A, i, o)
  BY <1>1, <1>6, <1>9, <1>13, <1>14, <1>15 DEF Fits
<1> QED
  BY <1>7, <1>16

-----------------------------------------------------------------------------
(***************************************************************************)
(* A leader, perhaps just elected, appends an entry.                       *)
(***************************************************************************)

\* Who has just been elected has what may be committed, and nobody led its term before
LEMMA ElectedLog ==
    ASSUME ElectionInv, ElectionInv', StoredInv, NEW H \in SUBSET Seq(Entry), Explains(H),
           NEW K \in SUBSET LeaderLog, NEW A \in SUBSET StoredAck, History(H, K, A),
           NEW i \in Node, NEW o \in NodeState, Become(i, o), Roles(i, node[i], o),
           o.state = "Leader", node[i].state = "Candidate"
    PROVE  /\ disk[i].term = node[i].term
           /\ \A r \in K : r.term # node[i].term
           /\ \A r \in K : \A k \in Nat :
                 r.term < node[i].term /\ Firm(disk, A, r, k) => Has(node[i].log, r.log, k)
<1> DEFINE n == node[i]
<1>1. /\ disk' = disk /\ msgs' = msgs /\ node'[i] = o
  BY BecomeFrame
<1>2. /\ n.term \in Nat /\ o.term = n.term /\ disk[i].term \in Nat /\ disk[i].term =< n.term
      /\ disk[i].term >= o.term /\ n.term > 1
  BY LogTypes DEF Roles, StoredInv
<1>3. disk[i].term = n.term
  BY <1>2
<1>4. Supporters(i, n.term) \in Quorum
  <2>1. Supporters(i, o.term)' \in Quorum
    BY <1>1 DEF ElectionInv, LeadersHadQuorum
  <2>2. Supporters(i, o.term)' = Supporters(i, o.term)
    BY <1>1 DEF Supporters, Granted
  <2> QED
    BY <1>2, <2>1, <2>2
<1>5. \A r \in K : r.term # n.term
  <2> SUFFICES ASSUME NEW r \in K PROVE r.term # n.term
    OBVIOUS
  <2>1. r.log \in H /\ Len(r.log) \in 1..Len(r.log) /\ r.log[Len(r.log)].term = r.term
    BY DEF History, LeadersWrote, Own
  <2> QED
    BY <1>2, <1>4, <2>1, FreshTerm
<1> QED
  BY <1>3, <1>4, <1>5, ElectedHas

\* The log and the acknowledgements that a leader adds, where M are the logs and B the
\* acknowledgements then
Adds(H, K, A, M, B, i, n, o) ==
    /\ K \subseteq M /\ A \subseteq B
    /\ \E s \in M : s.term = o.term /\ s.log = o.log
    /\ \A r \in M : r \in K \/ (r.term = o.term /\ r.log = o.log)
    /\ \A r \in K : r.term = o.term => Len(r.log) =< Len(n.log)
    /\ \A j \in Node : o.prog[j].match > 0 => <<j, o.term, o.prog[j].match>> \in B
    /\ History(H \cup {o.log}, M, B)

LEMMA AppendAdds ==
    ASSUME ElectionInv, ElectionInv', StoredInv, NEW H \in SUBSET Seq(Entry), Explains(H),
           NEW K \in SUBSET LeaderLog, NEW A \in SUBSET StoredAck, History(H, K, A),
           LeadersCount(K, A), NEW i \in Node, NEW o \in NodeState, Become(i, o),
           Roles(i, node[i], o), Appends(i, node[i], o)
    PROVE  \E M \in SUBSET LeaderLog : \E B \in SUBSET StoredAck :
              Adds(H, K, A, M, B, i, node[i], o)
<1> DEFINE n == node[i]
           T == o.term
<1>1. /\ n.term \in Nat /\ o.term = n.term /\ T \in Nat /\ n.log \in Seq(Entry) /\ n.log \in H
      /\ o.log \in Seq(Entry) /\ Len(n.log) \in Nat /\ o.state = "Leader"
  BY LogTypes DEF NodeState, Appends, Explains
<1>2. T >= 1
  BY <1>1 DEF Roles, StoredInv
<1>3. PICK e \in Entry : e.term = T /\ o.log = Append(n.log, e)
  BY DEF Appends
<1>4. /\ Len(o.log) = Len(n.log) + 1 /\ Has(o.log, n.log, Len(n.log))
  BY <1>1, <1>3, HasAppend
<1>5. \A k \in 1..Len(n.log) : n.log[k].term =< T
  BY <1>1 DEF History, LogsWritten
<1> DEFINE s == [term |-> T, log |-> o.log]
           w == [term |-> T, log |-> n.log]
           M == K \cup {s}
<1>6. s.term = T /\ s.log = o.log /\ s \in LeaderLog
  BY <1>1 DEF LeaderLog
<1>7. M \in SUBSET LeaderLog /\ K \subseteq M /\ s \in M
      /\ \A r \in M : r \in K \/ (r.term = T /\ r.log = o.log)
  BY <1>6
<1>8. CASE n.state = "Leader" /\ \A j \in Node : o.prog[j].match = n.prog[j].match
  <2>1. Counts(K, A, n)
    BY DEF LeadersCount
  <2>2. PICK q \in K : q.term = T /\ q.log = n.log
    BY <1>1, <1>8, <2>1 DEF Counts
  <2>3. w \in K
    <3>1. q = w
      BY <2>2 DEF LeaderLog
    <3> QED
      BY <3>1
  <2>4. \A r \in K : r.term = T => Len(r.log) =< Len(n.log) /\ w \in K
    BY <1>1, <1>8, <2>1, <2>3 DEF Counts
  <2>5. \A r \in K : \A k \in Nat :
           r.term < T /\ Firm(disk, A, r, k) => Has(n.log, r.log, k)
    BY <2>2 DEF History, LeadersHave
  <2>6. History(H \cup {o.log}, M, A)
    <3> HIDE DEF n
    <3>1. History(H \cup {Append(n.log, e)},
                  K \cup {[term |-> T, log |-> Append(n.log, e)]}, A)
      BY <1>1, <1>2, <1>3, <1>5, <2>4, <2>5, AddLog
    <3> QED
      BY <1>3, <3>1
  <2>7. \A j \in Node : o.prog[j].match > 0 => <<j, T, o.prog[j].match>> \in A
    BY <1>1, <1>8, <2>1 DEF Counts
  <2> HIDE DEF M, n
  <2>8. Adds(H, K, A, M, A, i, n, o)
    BY <1>6, <1>7, <2>4, <2>6, <2>7 DEF Adds
  <2> QED
    BY <1>7, <2>8 DEF n
<1>9. CASE /\ n.state = "Candidate"
           /\ \A j \in Node : o.prog[j].match = IF j = i THEN Len(n.log) ELSE 0
  <2>1. /\ disk[i].term = n.term
        /\ \A r \in K : r.term # n.term
        /\ \A r \in K : \A k \in Nat :
              r.term < n.term /\ Firm(disk, A, r, k) => Has(n.log, r.log, k)
    BY <1>1, <1>9, ElectedLog
  <2>2. History(H \cup {o.log}, M, A)
    <3>1. \A r \in K : r.term = T => Len(r.log) =< Len(n.log) /\ w \in K
      BY <1>1, <2>1
    <3>2. \A r \in K : \A k \in Nat :
             r.term < T /\ Firm(disk, A, r, k) => Has(n.log, r.log, k)
      BY <1>1, <2>1
    <3> HIDE DEF n
    <3>3. History(H \cup {Append(n.log, e)},
                  K \cup {[term |-> T, log |-> Append(n.log, e)]}, A)
      BY <1>1, <1>2, <1>3, <1>5, <3>1, <3>2, AddLog
    <3> QED
      BY <1>3, <3>3
  <2> DEFINE y == Len(n.log)
             B == A \cup {<<i, T, y>>}
  <2>3. LedTo(M, n.term, y)
    <3>1. y =< Len(s.log)
      BY <1>1, <1>4
    <3> QED
      BY <1>1, <1>6, <1>7, <3>1 DEF LedTo
  <2>4. ASSUME NEW r \in M, NEW k \in Nat, r.term = n.term, k =< y, k =< Len(r.log)
        PROVE  Has(n.log, r.log, k)
    <3>1. r.log = o.log
      BY <1>7, <2>1, <2>4
    <3>2. Has(o.log, n.log, k)
      BY <1>1, <1>4, <2>4, HasLess
    <3> QED
      BY <3>1, <3>2, HasSym
  <2>5. H \cup {o.log} \in SUBSET Seq(Entry) /\ y \in Nat
    BY <1>1
  <2>6. History(H \cup {o.log}, M, B)
    <3> HIDE DEF M, y
    <3>1. History(H \cup {o.log}, M, A \cup {<<i, node[i].term, y>>})
      BY <1>7, <1>9, <2>1, <2>2, <2>3, <2>4, <2>5, AddOwnAck
    <3> QED
      BY <1>1, <3>1
  <2>7. B \in SUBSET StoredAck /\ A \subseteq B
    BY <1>1, <2>5 DEF StoredAck
  <2>8. \A j \in Node : o.prog[j].match > 0 => <<j, T, o.prog[j].match>> \in B
    BY <1>9
  <2>9. \A r \in K : r.term = T => Len(r.log) =< Len(n.log)
    BY <1>1, <2>1
  <2> HIDE DEF M, n, B
  <2>10. Adds(H, K, A, M, B, i, n, o)
    BY <1>6, <1>7, <2>6, <2>7, <2>8, <2>9 DEF Adds
  <2> QED
    BY <1>7, <2>7, <2>10 DEF n
<1> QED
  BY <1>8, <1>9 DEF Appends

\* With these logs and acknowledgements the change fits
LEMMA AppendFits ==
    ASSUME ElectionInv, NEW H \in SUBSET Seq(Entry), Explains(H),
           NEW K \in SUBSET LeaderLog, NEW A, NEW M \in SUBSET LeaderLog,
           NEW B \in SUBSET StoredAck, NEW i \in Node, NEW o \in NodeState,
           Adds(H, K, A, M, B, i, node[i], o), Appends(i, node[i], o)
    PROVE  Fits(H \cup {o.log}, M, B, i, o)
<1> DEFINE n == node[i]
           G == H \cup {o.log}
<1>1. /\ n.term \in Nat /\ o.term = n.term /\ o.term \in Nat /\ n.log \in Seq(Entry)
      /\ o.log \in Seq(Entry) /\ Len(n.log) \in Nat /\ o.state = "Leader"
      /\ n.commit \in Nat /\ o.commit = n.commit
  BY LogTypes DEF NodeState, Appends
<1>2. PICK e \in Entry : e.term = o.term /\ o.log = Append(n.log, e)
  BY DEF Appends
<1>3. /\ Len(o.log) = Len(n.log) + 1 /\ Has(o.log, n.log, Len(n.log))
      /\ o.log[Len(n.log) + 1] = e /\ \A k \in 1..Len(n.log) : o.log[k] = n.log[k]
  BY <1>1, <1>2, HasAppend
<1>4. /\ LogsWritten(G, M) /\ LeadersWrote(G, M) /\ AcksHold(M, B) /\ CommitsHold(M, B)
  BY DEF Adds, History
<1>5. PICK s \in M : s.term = o.term /\ s.log = o.log
  BY DEF Adds
<1>6. \A k \in 1..Len(o.log) : o.log[k].term =< o.term
  <2> SUFFICES ASSUME NEW k \in 1..Len(o.log) PROVE o.log[k].term =< o.term
    OBVIOUS
  <2>1. CASE k \in 1..Len(n.log)
    BY <1>1, <1>3, <1>4, <2>1 DEF LogsWritten
  <2>2. CASE k = Len(n.log) + 1
    BY <1>1, <1>2, <1>3, <2>2
  <2> QED
    BY <1>1, <1>3, <2>1, <2>2
<1>7. ASSUME NEW t \in Nat, NEW y \in Nat, AckedBy(B, i, t, y)
      PROVE  Shows(disk, M, B, o, t, y)
  <2>1. Shows(disk, M, B, n, t, y)
    BY <1>4, <1>7, AckedShows
  <2> SUFFICES ASSUME NEW r \in M, NEW k \in Nat, r.term = t, k =< y, k =< Len(r.log),
                      o.term = t \/ Firm(disk, B, r, k)
               PROVE  Has(o.log, r.log, k)
    BY DEF Shows
  <2>2. Has(n.log, r.log, k) /\ r.log \in Seq(Entry)
    BY <1>1, <2>1, LeaderLogTypes DEF Shows
  <2>3. k =< Len(n.log)
    BY <2>2 DEF Has
  <2>4. Has(o.log, n.log, k)
    BY <1>1, <1>3, <2>3, HasLess
  <2> QED
    BY <1>1, <2>2, <2>4, HasTrans
<1>8. ASSUME NEW m \in Message, Waits(o, m), ~Waits(n, m)
      PROVE  /\ m.from = i /\ m.term = o.term /\ LedTo(M, o.term, m.index)
             /\ Shows(disk, M, B, o, o.term, m.index)
  <2>1. m.from = i /\ m.term = o.term /\ m.index = Len(o.log)
    BY <1>8 DEF Appends, AcksUpTo
  <2>2. LedTo(M, o.term, m.index)
    BY <1>1, <1>3, <1>5, <2>1 DEF LedTo
  <2>3. ASSUME NEW r \in M, NEW k \in Nat, r.term = o.term, k =< Len(o.log), k =< Len(r.log)
        PROVE  Has(o.log, r.log, k)
    BY <1>4, <1>5, <2>3, SameTermHas
  <2>4. Shows(disk, M, B, o, o.term, m.index)
    BY <2>1, <2>3 DEF Shows
  <2> QED
    BY <2>1, <2>2, <2>4
<1>9. Done(M, B, o.term, o.log, o.commit)
  <2>1. Done(M, B, n.term, n.log, n.commit)
    BY <1>4 DEF CommitsHold
  <2>2. n.commit =< Len(n.log)
    BY <1>1, <2>1, DoneInLog
  <2>3. Has(o.log, n.log, n.commit) /\ n.commit =< n.commit /\ n.term =< n.term
    BY <1>1, <1>3, <2>2, HasLess
  <2> HIDE DEF n
  <2> QED
    BY <1>1, <2>1, <2>3, DoneMore
<1>10. Counts(M, B, o)
  <2>1. ASSUME NEW r \in M, r.term = o.term
        PROVE  Len(r.log) =< Len(o.log)
    <3>1. r \in K => Len(r.log) =< Len(n.log)
      BY <2>1 DEF Adds
    <3>2. Len(r.log) \in Nat
      BY LeaderLogTypes
    <3>3. r \in K \/ r.log = o.log
      BY DEF Adds
    <3> QED
      BY <1>1, <1>3, <3>1, <3>2, <3>3
  <2> QED
    BY <1>5, <2>1 DEF Counts, Adds
<1>11. o.log \in G
  OBVIOUS
<1> HIDE DEF G
<1>12. Fits(G, M, B, i, o)
  BY <1>1, <1>6, <1>7, <1>8, <1>9, <1>10, <1>11 DEF Fits
<1> QED
  BY <1>12 DEF G

\* The other leaders are of other terms
LEMMA AppendCounts ==
    ASSUME ElectionInv, ElectionInv', NEW H, NEW K, NEW A, NEW M, NEW B, LeadersCount(K, A),
           NEW i \in Node, NEW o \in NodeState, Become(i, o), o.state = "Leader",
           Adds(H, K, A, M, B, i, node[i], o), NEW j \in Node \ {i}
    PROVE  Counts(M, B, node[j])
<1> DEFINE p == node[j]
<1> SUFFICES ASSUME p.state = "Leader" PROVE Counts(M, B, p)
  BY DEF Counts
<1>1. /\ disk' = disk /\ msgs' = msgs /\ node'[i] = o
  BY BecomeFrame
<1>2. p.term # o.term
  <2>1. Supporters(j, p.term) \in Quorum
    BY DEF ElectionInv, LeadersHadQuorum
  <2>2. Supporters(i, o.term)' \in Quorum
    BY <1>1 DEF ElectionInv, LeadersHadQuorum
  <2>3. Supporters(i, o.term)' = Supporters(i, o.term)
    BY <1>1 DEF Supporters, Granted
  <2> QED
    BY <2>1, <2>2, <2>3, SupportIsExclusive
<1>3. Counts(K, A, p)
  BY DEF LeadersCount
<1> QED
  BY <1>2, <1>3 DEF Counts, Adds

-----------------------------------------------------------------------------
(***************************************************************************)
(* Any change of a node preserves the invariant.                           *)
(***************************************************************************)

\* What the invariant says when the leaders have had at least the logs K0 and the disks at
\* least the acknowledgements A0
CommitsFrom(K0, A0) ==
    /\ ElectionInv /\ StoredInv
    /\ \E H \in SUBSET Seq(Entry), K \in SUBSET LeaderLog, A \in SUBSET StoredAck :
          /\ K0 \subseteq K /\ A0 \subseteq A
          /\ Explains(H) /\ History(H, K, A) /\ LeadersCount(K, A)

LEMMA CommitsFromAny ==
    ASSUME NEW K0, NEW A0, CommitsFrom(K0, A0)
    PROVE  CommitInv
  BY DEF CommitsFrom, CommitInv

LEMMA CommitsFromNothing == CommitInv => CommitsFrom({}, {})
  BY DEF CommitsFrom, CommitInv

\* A change that fits, and leaves the other leaders what they are
LEMMA MoveInv ==
    ASSUME ElectionInv, ElectionInv', StoredInv, NEW H \in SUBSET Seq(Entry), Explains(H),
           NEW i \in Node, NEW o \in NodeState, Become(i, o),
           LogStep(i, node[i], o), Roles(i, node[i], o), Says(i, node[i], o),
           NEW K \in SUBSET LeaderLog, NEW A \in SUBSET StoredAck,
           NEW K0 \in SUBSET K, NEW A0 \in SUBSET A,
           History(H \cup {o.log}, K, A), Fits(H \cup {o.log}, K, A, i, o),
           \A j \in Node \ {i} : Counts(K, A, node[j])
    PROVE  CommitsFrom(K0, A0)'
<1> DEFINE G == H \cup {o.log}
<1>1. /\ disk' = disk /\ msgs' = msgs
      /\ node'[i] = o /\ \A j \in Node \ {i} : node'[j] = node[j]
  BY BecomeFrame
<1>2. Explains(G)' /\ StoredInv'
  BY ExplainsStep, StoredStep
<1>3. G \in SUBSET Seq(Entry) /\ node[i].log \in G
  BY DEF Explains, NodeState
<1> HIDE DEF G
<1>4. History(G, K, A) /\ Fits(G, K, A, i, o)
  BY DEF G
<1>5. History(G, K, A)'
  BY <1>3, <1>4, MoveHistory
<1>6. LeadersCount(K, A)'
  <2>1. ASSUME NEW j \in Node PROVE Counts(K, A, node'[j])
    <3>1. CASE j = i
      BY <1>1, <1>4, <3>1 DEF Fits
    <3>2. CASE j # i
      BY <1>1, <3>2
    <3> QED
      BY <3>1, <3>2
  <2> QED
    BY <2>1 DEF LeadersCount, Counts
<1> QED
  BY <1>2, <1>3, <1>5, <1>6 DEF CommitsFrom

\* A follower takes what a MsgApp has for it
LEMMA TakesInv ==
    ASSUME ElectionInv, ElectionInv', StoredInv, NEW H \in SUBSET Seq(Entry), Explains(H),
           NEW i \in Node, NEW o \in NodeState, Become(i, o),
           LogStep(i, node[i], o), Roles(i, node[i], o), Says(i, node[i], o),
           NEW K \in SUBSET LeaderLog, NEW A \in SUBSET StoredAck,
           NEW K0 \in SUBSET K, NEW A0 \in SUBSET A,
           History(H, K, A), LeadersCount(K, A), Takes(i, node[i], o)
    PROVE  CommitsFrom(K0, A0)'
<1> DEFINE n == node[i]
<1>1. \A j \in Node \ {i} : Counts(K, A, node[j])
  BY DEF LeadersCount
<1>2. PICK m \in msgs :
          /\ m.type = "MsgApp" /\ m.term = o.term
          /\ \/ /\ MatchTerm(n.log, m.index, m.logTerm)
                /\ o.log = AppendAfter(n.log, m.index, m.entries)
                /\ \/ o.commit = n.commit
                   \/ o.commit =< m.commit /\ o.commit =< m.index + Len(m.entries)
                /\ AcksUpTo(i, n, o, m.index + Len(m.entries))
             \/ /\ o.log = n.log /\ o.commit = n.commit
                /\ AcksUpTo(i, n, o, n.commit)
  BY DEF Takes
<1>3. o.state = "Follower"
  BY DEF Takes
<1>4. m \in AppMsg
  <2>1. m \in Message
    BY DEF ElectionInv, TypeOK
  <2> QED
    BY <1>2, <2>1, MessageFields
<1>5. PICK s \in K : Source(K, A, m, s)
  BY <1>2 DEF History, CommitsHold, AllMsgs, Source
<1>6. CASE /\ MatchTerm(n.log, m.index, m.logTerm)
           /\ o.log = AppendAfter(n.log, m.index, m.entries)
           /\ \/ o.commit = n.commit
              \/ o.commit =< m.commit /\ o.commit =< m.index + Len(m.entries)
           /\ AcksUpTo(i, n, o, m.index + Len(m.entries))
  <2>1. /\ Fits(H \cup {o.log}, K, A, i, o)
        /\ \E h \in H : IsPart(o.log, h)
    BY <1>2, <1>3, <1>4, <1>5, <1>6, TakesEntriesFits
  <2>2. o.log \in Seq(Entry)
    BY DEF NodeState
  <2>3. History(H \cup {o.log}, K, A)
    BY <2>1, <2>2, HistoryTakes
  <2> QED
    BY <1>1, <2>1, <2>3, MoveInv
<1>7. CASE /\ o.log = n.log /\ o.commit = n.commit
           /\ AcksUpTo(i, n, o, n.commit)
  <2>1. s.term = o.term
    BY <1>2, <1>5 DEF Source
  <2>2. Fits(H, K, A, i, o)
    BY <1>3, <1>7, <2>1, TakesNothingFits
  <2>3. H \cup {o.log} = H
    BY <1>7 DEF Explains
  <2>4. History(H \cup {o.log}, K, A) /\ Fits(H \cup {o.log}, K, A, i, o)
    BY <2>2, <2>3
  <2> QED
    BY <1>1, <2>4, MoveInv
<1> QED
  BY <1>2, <1>6, <1>7

LEMMA CommitMove ==
    ASSUME NEW K0, NEW A0, CommitsFrom(K0, A0), ElectionInv',
           NEW i \in Node, NEW o \in NodeState, Become(i, o),
           LogStep(i, node[i], o), Roles(i, node[i], o), CommitStep(i, node[i], o)
    PROVE  CommitsFrom(K0, A0)'
<1>1. PICK H \in SUBSET Seq(Entry), K \in SUBSET LeaderLog, A \in SUBSET StoredAck :
          /\ K0 \subseteq K /\ A0 \subseteq A
          /\ Explains(H) /\ History(H, K, A) /\ LeadersCount(K, A)
  BY DEF CommitsFrom
<1>2. ElectionInv /\ StoredInv /\ Says(i, node[i], o)
  BY DEF CommitsFrom, CommitStep
<1>3. \A j \in Node \ {i} : Counts(K, A, node[j])
  BY <1>1 DEF LeadersCount
<1>4. ASSUME Fits(H, K, A, i, o), o.log = node[i].log
      PROVE  CommitsFrom(K0, A0)'
  <2>1. H \cup {o.log} = H
    BY <1>1, <1>4 DEF Explains
  <2>2. History(H \cup {o.log}, K, A) /\ Fits(H \cup {o.log}, K, A, i, o)
    BY <1>1, <1>4, <2>1
  <2> QED
    BY <1>1, <1>2, <1>3, <2>2, MoveInv
<1>5. CASE Speaks(i, node[i], o)
  <2>1. Fits(H, K, A, i, o)
    BY <1>1, <1>2, <1>5, SpeaksFits
  <2> QED
    BY <1>4, <1>5, <2>1 DEF Speaks
<1>6. CASE Beats(i, node[i], o)
  <2>1. Fits(H, K, A, i, o)
    BY <1>1, <1>2, <1>6, BeatsFits
  <2> QED
    BY <1>4, <1>6, <2>1 DEF Beats
<1>7. CASE Takes(i, node[i], o)
  BY <1>1, <1>2, <1>7, TakesInv
<1>8. CASE Appends(i, node[i], o)
  <2>1. PICK M \in SUBSET LeaderLog, B \in SUBSET StoredAck :
            Adds(H, K, A, M, B, i, node[i], o)
    BY <1>1, <1>2, <1>8, AppendAdds
  <2>2. Fits(H \cup {o.log}, M, B, i, o)
    BY <1>1, <1>2, <1>8, <2>1, AppendFits
  <2>3. \A j \in Node \ {i} : Counts(M, B, node[j])
    BY <1>1, <1>2, <1>8, <2>1, AppendCounts DEF Appends
  <2>4. History(H \cup {o.log}, M, B) /\ K0 \subseteq M /\ A0 \subseteq B
    BY <1>1, <2>1 DEF Adds
  <2> QED
    BY <1>1, <1>2, <2>2, <2>3, <2>4, MoveInv
<1> QED
  BY <1>5, <1>6, <1>7, <1>8 DEF CommitStep

-----------------------------------------------------------------------------
(***************************************************************************)
(* What a Ready stores becomes an acknowledgement; a restart forgets what  *)
(* was not stored.                                                         *)
(***************************************************************************)

\* Of two states, what is of concern here is the same
Like(x, s) == x.term = s.term /\ x.log = s.log /\ x.commit = s.commit

\* What either action does to node j: what it has in memory and on the disk is what it had
\* in memory or on the disk
Settles(j) ==
    /\ Like(node'[j], node[j]) \/ Like(node'[j], disk[j])
    /\ Like(disk'[j], node[j]) \/ Like(disk'[j], disk[j])
    /\ disk[j].term =< disk'[j].term /\ disk'[j].term \in Nat
    /\ node'[j].state \in {"Candidate", "Leader"} =>
          /\ Like(node'[j], node[j]) /\ node'[j].state = node[j].state
          /\ node'[j].prog = node[j].prog
          /\ Like(disk'[j], node[j]) \/ disk'[j] = disk[j]
    /\ \A m \in Message : Waits(node'[j], m) =>
          Waits(node[j], m) /\ Like(node'[j], node[j]) /\ disk'[j] = disk[j]

\* What it does to the acknowledgements: B are those that are stored then
Stores(A, B, j) ==
    /\ \A t, y \in Nat : <<j, t, y>> \in B \ A =>
          /\ \E m \in Message : Waits(node[j], m) /\ m.term = t /\ m.index = y
          /\ Like(disk'[j], node[j]) /\ Like(node'[j], node[j])
    /\ \A k \in 1..Len(node'[j].steps) :
          LET m == node'[j].steps[k] IN IsAck(m) => <<j, m.term, m.index>> \in B

\* Such a change, of one node or none, preserves the history
LEMMA SettleHistory ==
    ASSUME ElectionInv, NEW H \in SUBSET Seq(Entry), NEW K \in SUBSET LeaderLog,
           NEW A \in SUBSET StoredAck, NEW B \in SUBSET StoredAck, A \subseteq B,
           History(H, K, A), AllMsgs' \subseteq AllMsgs, msgs \subseteq msgs',
           \A j \in Node : Settles(j) /\ Stores(A, B, j),
           \A m \in msgs' : IsAck(m) => <<m.from, m.term, m.index>> \in B
    PROVE  History(H, K, B)'
<1>1. /\ LogsWritten(H, K) /\ LeadersWrote(H, K) /\ LeadersHave(K, A)
      /\ AcksHold(K, A) /\ RequestsTell /\ VotesRespect(K, A) /\ CommitsHold(K, A)
  BY DEF History
<1>2. \A j \in Node : /\ disk[j].term \in Nat /\ disk'[j].term \in Nat
                      /\ node[j].term \in Nat /\ disk[j].term =< disk'[j].term
                      /\ disk[j].term =< node[j].term
  BY LogTypes DEF Settles
<1>3. ASSUME NEW j \in Node, NEW t \in Nat, NEW y \in Nat, <<j, t, y>> \in B \ A
      PROVE  /\ disk[j].term =< t /\ t =< node[j].term /\ LedTo(K, t, y)
             /\ Shows(disk, K, A, node[j], t, y)
             /\ AckedBy(A, j, t, y)
             /\ Like(disk'[j], node[j]) /\ Like(node'[j], node[j])
  <2>1. PICK m \in Message : Waits(node[j], m) /\ m.term = t /\ m.index = y
    BY <1>3 DEF Stores
  <2>2. AckedBy(A, j, t, y)
    BY <2>1 DEF AckedBy
  <2> QED
    BY <1>1, <1>3, <2>1, <2>2 DEF AcksHold, Stores
<1>4. \A r \in K : \A k \in Nat : Firm(disk', B, r, k) => Firm(disk, A, r, k)
  <2>1. \A j \in Node : \A t, y \in Nat : <<j, t, y>> \in B \ A => disk[j].term =< t
    BY <1>3
  <2> QED
    BY <1>2, <2>1, FirmBefore, LeaderLogTypes
<1>5. ASSUME NEW x, NEW s, Like(x, s), NEW t, NEW y, Shows(disk, K, A, s, t, y)
      PROVE  Shows(disk', K, B, x, t, y)
  <2>1. Shows(disk', K, B, s, t, y)
    BY <1>4, <1>5, ShowsBefore
  <2> QED
    BY <1>5, <2>1 DEF Like, Shows
<1>6. \A t, log, c : Done(K, A, t, log, c) => Done(K, B, t, log, c)
  BY ChosenMore DEF Done
<1>7. \A j, t, k : Acked(A, j, t, k) => Acked(B, j, t, k)
  BY DEF Acked
<1>8. LogsWritten(H, K)'
  <2>1. ASSUME NEW j \in Node
        PROVE  /\ \A k \in 1..Len(node'[j].log) : node'[j].log[k].term =< node'[j].term
               /\ \A k \in 1..Len(disk'[j].log) : disk'[j].log[k].term =< disk'[j].term
               /\ node'[j].state = "Candidate" /\ disk'[j].term = node'[j].term =>
                     disk'[j].log = node'[j].log
    BY <1>1 DEF Settles, Like, LogsWritten
  <2> QED
    BY <1>1, <2>1 DEF LogsWritten
<1>9. LeadersWrote(H, K)'
  BY <1>1 DEF LeadersWrote
<1>10. LeadersHave(K, B)'
  BY <1>1, <1>4 DEF LeadersHave
<1>11. AcksHold(K, B)'
  <2>1. ASSUME NEW j \in Node, NEW t \in Nat, NEW y \in Nat, <<j, t, y>> \in B
        PROVE  /\ t =< disk'[j].term /\ LedTo(K, t, y)
               /\ Shows(disk', K, B, disk'[j], t, y)
               /\ Shows(disk', K, B, node'[j], t, y)
    <3>1. CASE <<j, t, y>> \in A
      <4>1. /\ t =< disk[j].term /\ LedTo(K, t, y)
            /\ Shows(disk, K, A, disk[j], t, y) /\ Shows(disk, K, A, node[j], t, y)
        BY <1>1, <3>1 DEF AcksHold
      <4>2. t =< disk'[j].term
        BY <1>2, <4>1
      <4> QED
        BY <1>5, <4>1, <4>2 DEF Settles
    <3>2. CASE <<j, t, y>> \in B \ A
      <4>1. /\ t =< node[j].term /\ LedTo(K, t, y) /\ Shows(disk, K, A, node[j], t, y)
            /\ Like(disk'[j], node[j]) /\ Like(node'[j], node[j])
        BY <1>3, <3>2
      <4>2. t =< disk'[j].term
        BY <4>1 DEF Like
      <4> QED
        BY <1>5, <4>1, <4>2
    <3> QED
      BY <2>1, <3>1, <3>2
  <2>2. ASSUME NEW j \in Node, NEW m \in Message, Waits(node'[j], m)
        PROVE  /\ m.from = j /\ disk'[j].term =< m.term /\ m.term =< node'[j].term
               /\ LedTo(K, m.term, m.index)
               /\ Shows(disk', K, B, node'[j], m.term, m.index)
    <3>1. Waits(node[j], m) /\ Like(node'[j], node[j]) /\ disk'[j] = disk[j]
      BY <2>2 DEF Settles
    <3>2. /\ m.from = j /\ disk[j].term =< m.term /\ m.term =< node[j].term
          /\ LedTo(K, m.term, m.index)
          /\ Shows(disk, K, A, node[j], m.term, m.index)
      BY <1>1, <3>1 DEF AcksHold
    <3>3. m.term =< node'[j].term
      BY <3>1, <3>2 DEF Like
    <3> QED
      BY <1>5, <3>1, <3>2, <3>3
  <2>3. \A j \in Node : \A k \in 1..Len(node'[j].steps) :
           IsAck(node'[j].steps[k]) => <<j, node'[j].steps[k].term, node'[j].steps[k].index>> \in B
    BY DEF Stores
  <2> QED
    BY <2>1, <2>2, <2>3 DEF AcksHold
<1>12. RequestsTell'
  <2> SUFFICES ASSUME NEW m \in AllMsgs', m.type = "MsgVote",
                      node'[m.from].state = "Candidate", m.term = node'[m.from].term
               PROVE  m.index = LastIndex(node'[m.from]) /\ m.logTerm = LastTerm(node'[m.from])
    BY DEF RequestsTell
  <2>1. m \in AllMsgs /\ m.from \in Node
    BY AllMsgsType
  <2>2. Like(node'[m.from], node[m.from]) /\ node[m.from].state = "Candidate"
    BY <2>1 DEF Settles
  <2> QED
    BY <1>1, <2>1, <2>2 DEF RequestsTell, Like, LastIndex, LastTerm
<1>13. VotesRespect(K, B)'
  <2> SUFFICES ASSUME NEW g \in AllMsgs', NEW t \in Nat, NEW y \in Nat, NEW r \in K,
                      NEW k \in Nat, IsGrant(g), t < g.term, AckedBy(B, g.from, t, y)',
                      r.term = t, k =< y, Firm(disk', B, r, k)
               PROVE  \E v \in msgs' : /\ v.type = "MsgVote" /\ v.from = g.to
                                       /\ v.term = g.term /\ Reaches(v, t, k)
    BY DEF VotesRespect
  <2>1. g \in AllMsgs /\ g.from \in Node
    BY AllMsgsType
  <2>2. AckedBy(A, g.from, t, y)
    <3>1. CASE <<g.from, t, y>> \in A
      BY <3>1 DEF AckedBy
    <3>2. CASE <<g.from, t, y>> \in B \ A
      BY <1>3, <2>1, <3>2
    <3>3. ASSUME NEW m \in Message, Waits(node'[g.from], m), m.term = t, m.index = y
          PROVE  AckedBy(A, g.from, t, y)
      BY <2>1, <3>3 DEF Settles, AckedBy
    <3> QED
      BY <3>1, <3>2, <3>3 DEF AckedBy
  <2>3. Firm(disk, A, r, k)
    BY <1>4
  <2>4. \E v \in msgs : /\ v.type = "MsgVote" /\ v.from = g.to /\ v.term = g.term
                        /\ Reaches(v, t, k)
    BY <1>1, <2>1, <2>2, <2>3 DEF VotesRespect
  <2> QED
    BY <2>4
<1>14. CommitsHold(K, B)'
  <2>1. ASSUME NEW j \in Node
        PROVE  /\ Done(K, B, node'[j].term, node'[j].log, node'[j].commit)
               /\ Done(K, B, disk'[j].term, disk'[j].log, disk'[j].commit)
    <3>1. /\ Done(K, B, node[j].term, node[j].log, node[j].commit)
          /\ Done(K, B, disk[j].term, disk[j].log, disk[j].commit)
      BY <1>1, <1>6 DEF CommitsHold
    <3> QED
      BY <3>1 DEF Settles, Like
  <2>2. \A m \in AllMsgs' : m.type = "MsgApp" =>
           \E s \in K : s.term = m.term /\ ShowsPart(m, s.log) /\ Done(K, B, m.term, s.log, m.commit)
    BY <1>1, <1>6 DEF CommitsHold
  <2>3. \A m \in AllMsgs' : m.type = "MsgHeartbeat" /\ m.commit > 0 =>
           /\ \E s \in K : s.term = m.term /\ Done(K, B, m.term, s.log, m.commit)
           /\ Acked(B, m.to, m.term, m.commit)
    BY <1>1, <1>6, <1>7 DEF CommitsHold
  <2> QED
    BY <2>1, <2>2, <2>3 DEF CommitsHold
<1> QED
  BY <1>8, <1>9, <1>10, <1>11, <1>12, <1>13, <1>14 DEF History

\* Leaders are what they were
LEMMA SettleCounts ==
    ASSUME NEW K, NEW A, NEW B, A \subseteq B, LeadersCount(K, A), \A j \in Node : Settles(j)
    PROVE  LeadersCount(K, B)'
<1>1. ASSUME NEW j \in Node
      PROVE  Counts(K, B, node'[j])
  <2>1. Counts(K, A, node[j])
    BY DEF LeadersCount
  <2> QED
    BY <2>1 DEF Counts, Settles, Like
<1> QED
  BY <1>1 DEF LeadersCount, Counts

\* A Ready stores what it acknowledges
LEMMA ReadyCommit ==
    ASSUME NEW K0, NEW A0, CommitsFrom(K0, A0), ElectionInv', NEW i \in Node, Ready(i)
    PROVE  CommitsFrom(K0, A0)'
<1> DEFINE n == node[i]
           o == node'[i]
<1>1. PICK H \in SUBSET Seq(Entry), K \in SUBSET LeaderLog, A \in SUBSET StoredAck :
          /\ K0 \subseteq K /\ A0 \subseteq A
          /\ Explains(H) /\ History(H, K, A) /\ LeadersCount(K, A)
  BY DEF CommitsFrom
<1>2. /\ ElectionInv /\ StoredInv
      /\ n \in NodeState /\ n.term \in Nat /\ disk[i].term \in Nat /\ disk[i].term =< n.term
  BY LogTypes DEF CommitsFrom
<1>3. Explains(H)' /\ StoredInv'
  BY <1>1, <1>2, ReadyExplains
<1>4. /\ node \in [Node -> NodeState] /\ disk \in [Node -> DiskState]
  BY <1>2 DEF ElectionInv, TypeOK
<1>5. /\ \A j \in Node \ {i} : node'[j] = node[j] /\ disk'[j] = disk[j]
      /\ disk'[i] = HardState(n) /\ msgs' = msgs \cup n.outbox
      /\ n.steps = <<>>
  BY <1>4 DEF Ready
<1>6. /\ o.log = n.log /\ o.term = n.term /\ o.commit = n.commit
      /\ o.state = n.state /\ o.prog = n.prog
      /\ o.outbox = {} /\ o.self = <<>> /\ o.steps = n.self
  BY <1>2, <1>4 DEF Ready, NodeState
<1>7. disk'[i].term = n.term /\ disk'[i].log = n.log /\ disk'[i].commit = n.commit
  BY <1>5 DEF HardState
<1> HIDE DEF o
<1>8. PICK B \in SUBSET StoredAck :
          B = A \cup {a \in StoredAck : \E m \in Message :
                         Waits(n, m) /\ a = <<i, m.term, m.index>>}
  OBVIOUS
<1>9. A \subseteq B
  BY <1>8
<1>10. ASSUME NEW m \in Message, Waits(n, m)
      PROVE  m.from = i /\ <<i, m.term, m.index>> \in B
  <2>1. m.term \in Nat /\ m.index \in Nat
    BY <1>10, AckFields DEF Waits
  <2>2. <<i, m.term, m.index>> \in StoredAck
    BY <2>1 DEF StoredAck
  <2>3. m.from = i
    BY <1>1, <1>10 DEF History, AcksHold
  <2> QED
    BY <1>8, <1>10, <2>2, <2>3
<1>11. \A j \in Node : \A t, y \in Nat : <<j, t, y>> \in B \ A =>
          j = i /\ \E m \in Message : Waits(n, m) /\ m.term = t /\ m.index = y
  BY <1>8
<1>12. AllMsgs' \subseteq AllMsgs /\ msgs \subseteq msgs'
  <2>1. \A j \in Node : node'[j].outbox \subseteq node[j].outbox
    BY <1>5, <1>6 DEF o
  <2>2. ASSUME NEW m \in AllMsgs'
        PROVE  m \in AllMsgs
    <3>1. m \in msgs' \/ \E j \in Node : m \in node'[j].outbox
      BY DEF AllMsgs
    <3>2. m \in msgs \/ \E j \in Node : m \in node[j].outbox
      BY <1>5, <2>1, <3>1
    <3> QED
      BY <3>2 DEF AllMsgs
  <2> QED
    BY <1>5, <2>2
<1>13. Settles(i)
  <2>1. Like(o, n) /\ Like(disk'[i], n)
    BY <1>6, <1>7 DEF Like
  <2>2. \A m \in Message : ~Waits(o, m)
    BY <1>6 DEF Waits
  <2> QED
    BY <1>2, <1>6, <1>7, <2>1, <2>2 DEF Settles, o
<1>14. ASSUME NEW j \in Node \ {i}
       PROVE  Settles(j)
  <2>1. node'[j] = node[j] /\ disk'[j] = disk[j] /\ disk[j].term \in Nat
    BY <1>2, <1>5, LogTypes
  <2> QED
    BY <2>1 DEF Settles, Like
<1>15. Stores(A, B, i)
  <2>1. Like(o, n) /\ Like(disk'[i], n)
    BY <1>6, <1>7 DEF Like
  <2>2. ASSUME NEW k \in 1..Len(o.steps), IsAck(o.steps[k])
        PROVE  <<i, o.steps[k].term, o.steps[k].index>> \in B
    <3>1. n.self \in Seq(VoteRespMsg \cup AppRespMsg) /\ k \in 1..Len(n.self)
          /\ o.steps[k] = n.self[k]
      BY <1>2, <1>6, <2>2 DEF NodeState
    <3>2. n.self[k] \in Message
      BY <3>1, ElementOfSeq DEF Message
    <3>3. Waits(n, n.self[k])
      BY <2>2, <3>1 DEF Waits
    <3> QED
      BY <1>10, <3>1, <3>2, <3>3
  <2>3. \A t, y \in Nat : <<i, t, y>> \in B \ A =>
           \E m \in Message : Waits(n, m) /\ m.term = t /\ m.index = y
    BY <1>11
  <2> QED
    BY <2>1, <2>2, <2>3 DEF Stores, o
<1>16. ASSUME NEW j \in Node \ {i}
       PROVE  Stores(A, B, j)
  <2>1. node'[j] = node[j]
    BY <1>5
  <2>2. \A k \in 1..Len(node[j].steps) :
           IsAck(node[j].steps[k]) => <<j, node[j].steps[k].term, node[j].steps[k].index>> \in A
    BY <1>1 DEF History, AcksHold
  <2>3. \A t, y \in Nat : ~(<<j, t, y>> \in B \ A)
    BY <1>11
  <2> QED
    BY <1>9, <2>1, <2>2, <2>3 DEF Stores
<1>17. ASSUME NEW m \in msgs', IsAck(m)
       PROVE  <<m.from, m.term, m.index>> \in B
  <2>1. CASE m \in msgs
    BY <1>1, <1>9, <1>17, <2>1 DEF History, AcksHold
  <2>2. CASE m \in n.outbox
    <3>1. m \in Message /\ Waits(n, m)
      BY <1>2, <1>17, <2>2 DEF NodeState, Waits
    <3> QED
      BY <1>10, <3>1
  <2> QED
    BY <1>5, <1>17, <2>1, <2>2
<1>18. \A j \in Node : Settles(j) /\ Stores(A, B, j)
  BY <1>13, <1>14, <1>15, <1>16
<1>19. History(H, K, B)'
  BY <1>1, <1>2, <1>9, <1>12, <1>17, <1>18, SettleHistory
<1>20. LeadersCount(K, B)'
  BY <1>1, <1>9, <1>18, SettleCounts
<1> QED
  BY <1>1, <1>3, <1>9, <1>19, <1>20 DEF CommitsFrom

\* What a node starts with
LEMMA NewRaftCommit ==
    ASSUME NEW i, NEW d, NEW o, o = NewRaft(i, d)
    PROVE  o.commit = d.commit /\ o.term = d.term
  BY DEF NewRaft, BecomeFollower, Reset

\* A restart goes back to what was stored
LEMMA RestartCommit ==
    ASSUME NEW K0, NEW A0, CommitsFrom(K0, A0), ElectionInv', NEW i \in Node, Restart(i)
    PROVE  CommitsFrom(K0, A0)'
<1> DEFINE o == node'[i]
<1>1. PICK H \in SUBSET Seq(Entry), K \in SUBSET LeaderLog, A \in SUBSET StoredAck :
          /\ K0 \subseteq K /\ A0 \subseteq A
          /\ Explains(H) /\ History(H, K, A) /\ LeadersCount(K, A)
  BY DEF CommitsFrom
<1>2. ElectionInv /\ StoredInv
  BY DEF CommitsFrom
<1>3. Explains(H)' /\ StoredInv'
  BY <1>1, <1>2, RestartExplains
<1>4. /\ node \in [Node -> NodeState] /\ disk \in [Node -> DiskState]
  BY <1>2 DEF ElectionInv, TypeOK
<1>5. /\ \A j \in Node \ {i} : node'[j] = node[j]
      /\ disk' = disk /\ msgs' = msgs /\ o = NewRaft(i, disk[i])
  BY <1>4 DEF Restart
<1>6. /\ o.log = disk[i].log /\ o.state = "Follower"
      /\ o.outbox = {} /\ o.self = <<>> /\ o.steps = <<>>
      /\ o.term = disk[i].term /\ o.commit = disk[i].commit
  BY <1>5, NewRaftLog, NewRaftCommit
<1> HIDE DEF o
<1>7. AllMsgs' \subseteq AllMsgs /\ msgs \subseteq msgs'
  <2>1. \A j \in Node : node'[j].outbox \subseteq node[j].outbox
    BY <1>5, <1>6 DEF o
  <2>2. ASSUME NEW m \in AllMsgs'
        PROVE  m \in AllMsgs
    <3>1. m \in msgs' \/ \E j \in Node : m \in node'[j].outbox
      BY DEF AllMsgs
    <3>2. m \in msgs \/ \E j \in Node : m \in node[j].outbox
      BY <1>5, <2>1, <3>1
    <3> QED
      BY <3>2 DEF AllMsgs
  <2> QED
    BY <1>5, <2>2
<1>8. ASSUME NEW j \in Node
      PROVE  Settles(j) /\ Stores(A, A, j)
  <2>1. /\ disk'[j] = disk[j] /\ disk[j].term \in Nat /\ disk[j].term =< disk[j].term
    BY <1>2, <1>5, LogTypes
  <2>2. CASE j = i
    <3>1. Like(o, disk[i]) /\ \A m \in Message : ~Waits(o, m)
      BY <1>6 DEF Like, Waits
    <3>2. Like(disk'[i], disk[i])
      BY <1>5 DEF Like
    <3>3. Settles(i)
      BY <1>6, <2>1, <2>2, <3>1, <3>2 DEF Settles, o
    <3>4. Stores(A, A, i)
      BY <1>6 DEF Stores, o
    <3> QED
      BY <2>2, <3>3, <3>4
  <2>3. CASE j # i
    <3>1. node'[j] = node[j]
      BY <1>5, <2>3
    <3>2. Settles(j)
      BY <2>1, <3>1 DEF Settles, Like
    <3>3. \A k \in 1..Len(node[j].steps) :
             IsAck(node[j].steps[k]) =>
                 <<j, node[j].steps[k].term, node[j].steps[k].index>> \in A
      BY <1>1 DEF History, AcksHold
    <3>4. Stores(A, A, j)
      BY <3>1, <3>3 DEF Stores
    <3> QED
      BY <3>2, <3>4
  <2> QED
    BY <2>2, <2>3
<1>9. \A m \in msgs' : IsAck(m) => <<m.from, m.term, m.index>> \in A
  BY <1>1, <1>5 DEF History, AcksHold
<1>10. History(H, K, A)'
  BY <1>1, <1>2, <1>7, <1>8, <1>9, SettleHistory
<1>11. LeadersCount(K, A)'
  BY <1>1, <1>8, SettleCounts
<1> QED
  BY <1>1, <1>3, <1>10, <1>11 DEF CommitsFrom

-----------------------------------------------------------------------------
(***************************************************************************)
(* The invariant holds.                                                    *)
(***************************************************************************)

\* If there is a node, all nodes are a quorum
LEMMA NodeIsQuorum ==
    ASSUME NEW i \in Node
    PROVE  Node \in Quorum
<1>1. Cardinality(Node) \in Nat /\ Cardinality(Node) # 0
  BY NodeAssumption, FS_CardinalityType, FS_EmptySet
<1> QED
  BY <1>1 DEF Quorum

\* The entry of the configuration is where all logs begin
LEMMA CommitInit == Init => CommitInv
<1> SUFFICES ASSUME Init PROVE CommitInv
  OBVIOUS
<1>1. ElectionInv
  BY ElectionInit
<1>2. \A i \in Node :
         /\ disk[i] = BootDisk /\ node[i] = NewRaft(i, BootDisk)
  BY DEF Init
<1>3. \A i \in Node :
         /\ disk[i].term = 1 /\ disk[i].log = BootLog /\ disk[i].commit = 1
         /\ node[i].log = BootLog /\ node[i].state = "Follower"
         /\ node[i].term = 1 /\ node[i].commit = 1
         /\ node[i].outbox = {} /\ node[i].self = <<>> /\ node[i].steps = <<>>
  <2> SUFFICES ASSUME NEW i \in Node
               PROVE  /\ disk[i].term = 1 /\ disk[i].log = BootLog /\ disk[i].commit = 1
                      /\ node[i].log = BootLog /\ node[i].state = "Follower"
                      /\ node[i].term = 1 /\ node[i].commit = 1
                      /\ node[i].outbox = {} /\ node[i].self = <<>> /\ node[i].steps = <<>>
    OBVIOUS
  <2>1. disk[i].term = 1 /\ disk[i].log = BootLog /\ disk[i].commit = 1
    BY <1>2 DEF BootDisk
  <2>2. BootDisk.log = BootLog /\ BootDisk.term = 1 /\ BootDisk.commit = 1
    BY DEF BootDisk
  <2> QED
    BY <1>2, <2>1, <2>2, NewRaftLog, NewRaftCommit
<1>4. StoredInv
  BY <1>3 DEF StoredInv, VotesCast
<1>5. AllMsgs = {} /\ msgs = {}
  BY <1>3 DEF AllMsgs, Init
<1>6. BootLog \in Seq(Entry) /\ Len(BootLog) = 1 /\ BootLog[1].term = 1
  <2>1. BootLog \in Seq(Entry)
    BY DEF BootLog, Entry
  <2> QED
    BY <2>1 DEF BootLog
<1>7. \A k \in 1..Len(BootLog) : k = 1 /\ BootLog[k].term = 1
  BY <1>6
<1>8. Explains({BootLog})
  <2>1. Agree(BootLog, BootLog)
    BY DEF Agree
  <2> QED
    BY <1>3, <1>5, <1>7, <2>1 DEF Explains
<1>9. PICK r \in LeaderLog : r.term = 1 /\ r.log = BootLog
  <2>1. [term |-> 1, log |-> BootLog] \in LeaderLog
    BY <1>6 DEF LeaderLog
  <2> QED
    BY <2>1
<1>10. PICK A \in SUBSET StoredAck :
         /\ \A j \in Node : <<j, 1, 1>> \in A
         /\ \A j \in Node : \A t, y \in Nat : <<j, t, y>> \in A => t = 1 /\ y = 1
  <2> DEFINE B == {a \in StoredAck : a[2] = 1 /\ a[3] = 1}
  <2>1. /\ \A j \in Node : <<j, 1, 1>> \in B
        /\ \A j \in Node : \A t, y \in Nat : <<j, t, y>> \in B => t = 1 /\ y = 1
    BY DEF StoredAck
  <2> QED
    BY <2>1
<1>11. \A k \in Nat : k =< 1 => Has(BootLog, BootLog, k)
  BY <1>6 DEF Has
<1>12. Own(r, 1) /\ Len(r.log) = 1
  <2>1. 1 \in 1..Len(r.log) /\ Len(r.log) = 1
    BY <1>6, <1>9
  <2>2. r.log[1].term = r.term
    BY <1>6, <1>9
  <2> QED
    BY <2>1, <2>2 DEF Own
<1>13. LogsWritten({BootLog}, {r})
  <2>1. Sorted(BootLog)
    BY <1>7 DEF Sorted
  <2>2. \A k \in 1..Len(BootLog) : r.term = BootLog[k].term /\ Has(BootLog, r.log, k)
    BY <1>7, <1>9, <1>11
  <2> QED
    BY <1>3, <1>7, <2>1, <2>2 DEF LogsWritten
<1>14. LeadersWrote({BootLog}, {r})
  <2>1. Has(BootLog, BootLog, Len(BootLog))
    BY <1>6, <1>11
  <2>2. r.term >= 1 /\ Own(r, Len(r.log)) /\ r.log \in {BootLog}
    BY <1>9, <1>12
  <2>3. Has(r.log, r.log, Len(r.log))
    BY <1>9, <2>1
  <2> QED
    BY <2>2, <2>3 DEF LeadersWrote
<1>15. LeadersHave({r}, A)
  BY <1>9 DEF LeadersHave
<1>16. AcksHold({r}, A)
  <2>1. LedTo({r}, 1, 1)
    <3>1. r \in {r} /\ r.term = 1 /\ 1 =< Len(r.log)
      BY <1>9, <1>12
    <3> QED
      BY <3>1 DEF LedTo
  <2>2. \A s : s.log = BootLog => Shows(disk, {r}, A, s, 1, 1)
    BY <1>9, <1>11 DEF Shows
  <2>3. \A j \in Node : \A m \in Message : ~Waits(node[j], m)
    BY <1>3 DEF Waits
  <2>4. \A j \in Node : \A t, y \in Nat : <<j, t, y>> \in A =>
           /\ t =< disk[j].term /\ LedTo({r}, t, y)
           /\ Shows(disk, {r}, A, disk[j], t, y)
           /\ Shows(disk, {r}, A, node[j], t, y)
    <3> SUFFICES ASSUME NEW j \in Node, NEW t \in Nat, NEW y \in Nat, <<j, t, y>> \in A
                 PROVE  /\ t =< disk[j].term /\ LedTo({r}, t, y)
                        /\ Shows(disk, {r}, A, disk[j], t, y)
                        /\ Shows(disk, {r}, A, node[j], t, y)
      OBVIOUS
    <3>1. t = 1 /\ y = 1
      BY <1>10
    <3>2. disk[j].term = 1 /\ disk[j].log = BootLog /\ node[j].log = BootLog
      BY <1>3
    <3> QED
      BY <2>1, <2>2, <3>1, <3>2
  <2>5. \A i \in Node : \A k \in 1..Len(node[i].steps) : FALSE
    <3>1. \A i \in Node : 1..Len(node[i].steps) = {}
      <4>1. 1..Len(<<>>) = {}
        OBVIOUS
      <4> QED
        BY <1>3, <4>1
    <3> QED
      BY <3>1
  <2> QED
    BY <1>5, <2>3, <2>4, <2>5 DEF AcksHold
<1>17. RequestsTell /\ VotesRespect({r}, A)
  BY <1>5 DEF RequestsTell, VotesRespect
<1>18. CommitsHold({r}, A)
  <2>1. ASSUME NEW i \in Node
        PROVE  Done({r}, A, 1, BootLog, 1)
    <3>1. \A j \in Node : Acked(A, j, 1, 1)
      BY <1>10 DEF Acked
    <3>2. IsChosen(A, 1, 1)
      BY <3>1, NodeIsQuorum DEF IsChosen
    <3> QED
      BY <1>9, <1>11, <1>12, <3>2 DEF Done
  <2> QED
    BY <1>3, <1>5, <2>1 DEF CommitsHold
<1>19. History({BootLog}, {r}, A)
  BY <1>13, <1>14, <1>15, <1>16, <1>17, <1>18 DEF History
<1>20. LeadersCount({r}, A)
  BY <1>3 DEF LeadersCount, Counts
<1>21. {BootLog} \in SUBSET Seq(Entry)
  BY <1>6
<1>22. {r} \in SUBSET LeaderLog
  OBVIOUS
<1> QED
  BY <1>1, <1>4, <1>8, <1>10, <1>19, <1>20, <1>21, <1>22 DEF CommitInv

\* Only Ready and Restart are more than a change of one node
LEMMA StepKinds ==
    ASSUME ElectionInv, StoredInv, [Next]_vars
    PROVE  \/ UNCHANGED vars
           \/ \E i \in Node : \E o \in NodeState :
                 /\ Become(i, o) /\ LogStep(i, node[i], o) /\ Roles(i, node[i], o)
                 /\ CommitStep(i, node[i], o)
           \/ \E i \in Node : Ready(i) \/ Restart(i)
<1> DEFINE Moves == \E i \in Node : \E o \in NodeState :
                       /\ Become(i, o) /\ LogStep(i, node[i], o) /\ Roles(i, node[i], o)
                       /\ CommitStep(i, node[i], o)
<1>1. TypeOK
  BY DEF ElectionInv
<1>2. ASSUME NEW i \in Node,
             \E o \in NodeState : Become(i, o) /\ LogStep(i, node[i], o) /\ Roles(i, node[i], o),
             \E o \in NodeState : Become(i, o) /\ CommitStep(i, node[i], o)
      PROVE  Moves
  <2>1. PICK o \in NodeState : Become(i, o) /\ LogStep(i, node[i], o) /\ Roles(i, node[i], o)
    BY <1>2
  <2>2. PICK p \in NodeState : Become(i, p) /\ CommitStep(i, node[i], p)
    BY <1>2
  <2>3. o = p
    BY <2>1, <2>2, BecomeFrame
  <2> QED
    BY <2>1, <2>2, <2>3
<1>3. ASSUME NEW i \in Node, Advance(i)
      PROVE  Moves
  BY <1>1, <1>2, <1>3, AdvanceLogs, AdvanceCommit
<1>4. ASSUME NEW i \in Node, Local(i)
      PROVE  Moves
  BY <1>1, <1>2, <1>4, LocalLogs, LocalCommit
<1>5. ASSUME NEW i \in Node, NEW m \in msgs, m.to = i, Deliver(i, m)
      PROVE  Moves
  BY <1>1, <1>2, <1>5, DeliverLogs, DeliverCommit
<1> QED
  BY <1>3, <1>4, <1>5 DEF Next

\* The invariant is kept by every step, and what leaders had and disks stored remains part
\* of the history.
LEMMA CommitsFromStep ==
    ASSUME NEW K0, NEW A0, CommitsFrom(K0, A0), [Next]_vars
    PROVE  CommitsFrom(K0, A0)'
<1>1. ElectionInv /\ StoredInv /\ ElectionInv'
  BY ElectionStep DEF CommitsFrom
<1>2. CASE UNCHANGED vars
  <2>1. node' = node /\ disk' = disk /\ msgs' = msgs
    BY <1>2 DEF vars
  <2>2. AllMsgs' = AllMsgs /\ \A c, t : Wrote(c, t)' = Wrote(c, t)
    BY <2>1 DEF AllMsgs, Wrote, Supporters, Granted
  <2>3. StoredInv'
    BY <1>1, <2>1 DEF StoredInv
  <2>4. PICK H \in SUBSET Seq(Entry), K \in SUBSET LeaderLog, A \in SUBSET StoredAck :
            /\ K0 \subseteq K /\ A0 \subseteq A
            /\ Explains(H) /\ History(H, K, A) /\ LeadersCount(K, A)
    BY DEF CommitsFrom
  <2>5. Explains(H)'
    BY <2>1, <2>2, <2>4 DEF Explains
  <2>6. LeadersCount(K, A)'
    BY <2>1, <2>4 DEF LeadersCount, Counts
  <2>7. /\ LogsWritten(H, K)' /\ LeadersWrote(H, K)' /\ LeadersHave(K, A)'
        /\ AcksHold(K, A)' /\ CommitsHold(K, A)'
    BY <2>1, <2>2, <2>4 DEF History, LogsWritten, LeadersWrote, LeadersHave, AcksHold, CommitsHold
  <2>8. RequestsTell' /\ VotesRespect(K, A)'
    BY <2>1, <2>2, <2>4 DEF History, RequestsTell, VotesRespect, AckedBy
  <2>9. History(H, K, A)'
    BY <2>7, <2>8 DEF History
  <2> QED
    BY <1>1, <2>3, <2>4, <2>5, <2>6, <2>9 DEF CommitsFrom
<1>3. ASSUME NEW i \in Node, NEW o \in NodeState, Become(i, o), LogStep(i, node[i], o),
             Roles(i, node[i], o), CommitStep(i, node[i], o)
      PROVE  CommitsFrom(K0, A0)'
  BY <1>1, <1>3, CommitMove
<1>4. ASSUME NEW i \in Node, Ready(i)
      PROVE  CommitsFrom(K0, A0)'
  BY <1>1, <1>4, ReadyCommit
<1>5. ASSUME NEW i \in Node, Restart(i)
      PROVE  CommitsFrom(K0, A0)'
  BY <1>1, <1>5, RestartCommit
<1> QED
  BY <1>1, <1>2, <1>3, <1>4, <1>5, StepKinds

LEMMA CommitInvStep == CommitInv /\ [Next]_vars => CommitInv'
<1> SUFFICES ASSUME CommitInv, [Next]_vars PROVE CommitInv'
  OBVIOUS
<1>1. CommitsFrom({}, {})'
  BY CommitsFromNothing, CommitsFromStep
<1> QED
  BY <1>1 DEF CommitsFrom, CommitInv

\* Commit indexes, acknowledgements and votes fit together in every state that raft reaches.
THEOREM CommitInvariant == Spec => []CommitInv
  BY CommitInit, CommitInvStep, PTL DEF Spec

-----------------------------------------------------------------------------
(***************************************************************************)
(* What the invariant says of the properties of Raft.                      *)
(***************************************************************************)

\* The beginning of a log, as a sequence
LEMMA HasIsPrefix ==
    ASSUME NEW a \in Seq(Entry), NEW b \in Seq(Entry), NEW k \in Nat, Has(a, b, k)
    PROVE  IsPrefix(SubSeq(b, 1, k), a)
<1> DEFINE p == SubSeq(b, 1, k)
           q == SubSeq(a, 1, k)
<1>1. /\ k =< Len(a) /\ k =< Len(b) /\ Len(a) \in Nat /\ Len(b) \in Nat
      /\ \A x \in 1..k : a[x] = b[x]
  BY DEF Has
<1>2. /\ \A x \in 1..k : b[x] \in Entry
      /\ \A x \in 1..k : a[x] \in Entry
  BY <1>1, ElementOfSeq
<1>3. /\ p \in Seq(Entry) /\ Len(p) = (IF 1 =< k THEN k - 1 + 1 ELSE 0)
      /\ \A x \in 1..k - 1 + 1 : p[x] = b[1 + x - 1]
  BY <1>2, SubSeqProperties
<1>4. /\ q \in Seq(Entry) /\ Len(q) = (IF 1 =< k THEN k - 1 + 1 ELSE 0)
      /\ \A x \in 1..k - 1 + 1 : q[x] = a[1 + x - 1]
  BY <1>2, SubSeqProperties
<1> HIDE DEF p, q
<1>5. Len(p) = k /\ Len(q) = k /\ \A x \in 1..Len(p) : p[x] = q[x]
  BY <1>1, <1>3, <1>4
<1>6. p = q
  BY <1>3, <1>4, <1>5, SeqEqual
<1>7. SubSeq(p, 1, Len(p)) = p
  <2> DEFINE s == SubSeq(p, 1, Len(p))
  <2>1. \A x \in 1..k : p[x] \in Entry
    BY <1>2, <1>3
  <2>2. /\ s \in Seq(Entry) /\ Len(s) = (IF 1 =< k THEN k - 1 + 1 ELSE 0)
        /\ \A x \in 1..k - 1 + 1 : s[x] = p[1 + x - 1]
    BY <1>5, <2>1, SubSeqProperties
  <2> HIDE DEF s
  <2>3. Len(s) = Len(p) /\ \A x \in 1..Len(s) : s[x] = p[x]
    BY <1>5, <2>2
  <2>4. s = p
    BY <1>3, <2>2, <2>3, SeqEqual
  <2> QED
    BY <2>4 DEF s
<1>8. SubSeq(a, 1, Len(p)) = q
  BY <1>5 DEF q
<1>9. IsPrefix(p, a)
  BY <1>1, <1>5, <1>6, <1>7, <1>8 DEF IsPrefix
<1> QED
  BY <1>9 DEF p

\* Two logs have the same first entries as far as both are committed
LEMMA DonePair ==
    ASSUME NEW H, NEW K \in SUBSET LeaderLog, NEW A, LeadersWrote(H, K), LeadersHave(K, A),
           NEW t, NEW a \in Seq(Entry), NEW c \in Nat, Done(K, A, t, a, c),
           NEW u, NEW b \in Seq(Entry), NEW d \in Nat, Done(K, A, u, b, d),
           NEW k \in Nat, k =< c, k =< d
    PROVE  Has(a, b, k)
<1>1. CASE k = 0
  BY <1>1 DEF Has
<1>2. CASE k > 0
  <2>1. PICK r \in K, x \in Nat :
           /\ c =< x /\ Own(r, x) /\ IsChosen(A, r.term, x) /\ Has(a, r.log, c)
    BY <1>2 DEF Done
  <2>2. PICK s \in K, y \in Nat :
           /\ d =< y /\ Own(s, y) /\ IsChosen(A, s.term, y) /\ Has(b, s.log, d)
    BY <1>2 DEF Done
  <2>3. /\ r.term \in Nat /\ r.log \in Seq(Entry) /\ Len(r.log) \in Nat
        /\ s.term \in Nat /\ s.log \in Seq(Entry) /\ Len(s.log) \in Nat
    BY LeaderLogTypes
  <2>4. k =< x /\ k =< y /\ k =< Len(r.log) /\ k =< Len(s.log)
    BY <2>1, <2>2, <2>3 DEF Own
  <2>5. Has(r.log, s.log, k)
    <3>1. CASE r.term = s.term
      BY <2>4, <3>1, SameTermHas
    <3>2. CASE r.term < s.term
      <4>1. Has(s.log, r.log, x)
        BY <2>1, <3>2, ChosenIsFirm DEF LeadersHave
      <4> QED
        BY <2>3, <2>4, <4>1, HasSym, HasLess
    <3>3. CASE s.term < r.term
      <4>1. Has(r.log, s.log, y)
        BY <2>2, <3>3, ChosenIsFirm DEF LeadersHave
      <4> QED
        BY <2>3, <2>4, <4>1, HasLess
    <3> QED
      BY <2>3, <3>1, <3>2, <3>3
  <2>6. Has(a, s.log, k)
    BY <2>1, <2>3, <2>5, HasVia
  <2>7. Has(s.log, b, d)
    BY <2>2, HasSym
  <2> QED
    BY <2>3, <2>6, <2>7, HasVia
<1> QED
  BY <1>1, <1>2

\* What is committed is on the disks of a quorum: those that acknowledged it.
LEMMA CommitInvOnQuorum == CommitInv => CommittedIsOnQuorum
<1> SUFFICES ASSUME CommitInv, NEW i \in Node
             PROVE  {j \in Node : IsPrefix(Committed(i), disk[j].log)} \in Quorum
  BY DEF CommittedIsOnQuorum
<1>1. PICK H \in SUBSET Seq(Entry), K \in SUBSET LeaderLog, A \in SUBSET StoredAck :
          Explains(H) /\ History(H, K, A) /\ LeadersCount(K, A)
  BY DEF CommitInv
<1>2. ElectionInv
  BY DEF CommitInv
<1>3. /\ node[i].log \in Seq(Entry) /\ node[i].commit \in Nat /\ node[i].term \in Nat
      /\ \A j \in Node : disk[j].log \in Seq(Entry) /\ disk[j].term \in Nat
  BY <1>2 DEF ElectionInv, TypeOK, NodeState, DiskState
<1>4. Done(K, A, node[i].term, node[i].log, node[i].commit)
  BY <1>1 DEF History, CommitsHold
<1> DEFINE c == node[i].commit
           R == {j \in Node : IsPrefix(Committed(i), disk[j].log)}
<1>5. ASSUME NEW j \in Node, Has(disk[j].log, node[i].log, c)
      PROVE  j \in R
  BY <1>3, <1>5, HasIsPrefix DEF Committed
<1>6. CASE c = 0
  <2>1. \A j \in Node : Has(disk[j].log, node[i].log, c)
    BY <1>3, <1>6 DEF Has
  <2>2. R = Node
    BY <1>5, <2>1
  <2> QED
    BY <2>2, NodeIsQuorum
<1>7. CASE c > 0
  <2>1. PICK r \in K, x \in Nat :
           /\ c =< x /\ Own(r, x) /\ IsChosen(A, r.term, x) /\ Has(node[i].log, r.log, c)
    BY <1>3, <1>4, <1>7 DEF Done
  <2>2. PICK Q \in Quorum : \A j \in Q : Acked(A, j, r.term, x)
    BY <2>1 DEF IsChosen
  <2>3. /\ r.term \in Nat /\ r.log \in Seq(Entry) /\ Len(r.log) \in Nat /\ x \in 1..Len(r.log)
    BY <2>1, LeaderLogTypes DEF Own
  <2>4. Firm(disk, A, r, x)
    BY <2>1, ChosenIsFirm
  <2>5. ASSUME NEW j \in Q
        PROVE  j \in R
    <3>1. j \in Node
      BY DEF Quorum
    <3>2. PICK y \in Nat : y >= x /\ <<j, r.term, y>> \in A
      BY <2>2 DEF Acked
    <3>3. Shows(disk, K, A, disk[j], r.term, y)
      BY <1>1, <2>3, <3>1, <3>2 DEF History, AcksHold
    <3>4. Has(disk[j].log, r.log, x)
      BY <2>3, <2>4, <3>2, <3>3 DEF Shows
    <3>5. Has(r.log, node[i].log, c)
      BY <2>1, HasSym
    <3>6. Has(disk[j].log, node[i].log, c)
      BY <1>3, <2>1, <2>3, <3>1, <3>4, <3>5, HasVia
    <3> QED
      BY <1>5, <3>1, <3>6
  <2> HIDE DEF R
  <2>6. Q \subseteq R
    BY <2>5
  <2>7. R \in SUBSET Node
    BY DEF R
  <2>8. R \in Quorum
    BY <2>6, <2>7, QuorumGrows
  <2> QED
    BY <2>8 DEF R
<1> QED
  BY <1>3, <1>6, <1>7

\* A leader's log is the longest of its term, and has what was committed before.
LEMMA CommitInvComplete == CommitInv => LeaderCompleteness
<1> SUFFICES ASSUME CommitInv, NEW i \in Node, NEW l \in Node,
                    node[l].state = "Leader", node[i].term <= node[l].term
             PROVE  IsPrefix(Committed(i), node[l].log)
  BY DEF LeaderCompleteness
<1>1. PICK H \in SUBSET Seq(Entry), K \in SUBSET LeaderLog, A \in SUBSET StoredAck :
          Explains(H) /\ History(H, K, A) /\ LeadersCount(K, A)
  BY DEF CommitInv
<1>2. ElectionInv
  BY DEF CommitInv
<1>3. /\ node[i].log \in Seq(Entry) /\ node[i].commit \in Nat /\ node[i].term \in Nat
      /\ node[l].log \in Seq(Entry) /\ Len(node[l].log) \in Nat
  BY <1>2 DEF ElectionInv, TypeOK, NodeState
<1>4. Done(K, A, node[i].term, node[i].log, node[i].commit)
  BY <1>1 DEF History, CommitsHold
<1>5. /\ \E s \in K : s.term = node[l].term /\ s.log = node[l].log
      /\ \A r \in K : r.term = node[l].term => Len(r.log) =< Len(node[l].log)
  BY <1>1 DEF LeadersCount, Counts
<1>6. PICK s \in K : s.term = node[l].term /\ s.log = node[l].log
  BY <1>5
<1>7. LeadersWrote(H, K) /\ LeadersHave(K, A) /\ node[i].term =< s.term
  BY <1>1, <1>6 DEF History
<1>8. /\ \A k \in Nat : k =< node[i].commit /\ k =< Len(s.log) => Has(node[i].log, s.log, k)
      /\ node[i].commit > 0 => \E r \in K : r.term = s.term /\ node[i].commit =< Len(r.log)
  BY <1>3, <1>4, <1>7, DoneThen
<1>9. node[i].commit =< Len(node[l].log)
  <2>1. CASE node[i].commit = 0
    BY <1>3, <2>1
  <2>2. CASE node[i].commit > 0
    <3>1. PICK r \in K : r.term = s.term /\ node[i].commit =< Len(r.log)
      BY <1>8, <2>2
    <3>2. Len(r.log) \in Nat
      BY LeaderLogTypes
    <3> QED
      BY <1>3, <1>5, <1>6, <3>1, <3>2
  <2> QED
    BY <1>3, <2>1, <2>2
<1>10. Has(node[i].log, node[l].log, node[i].commit)
  BY <1>3, <1>6, <1>8, <1>9
<1>11. Has(node[l].log, node[i].log, node[i].commit)
  BY <1>10, HasSym
<1> QED
  BY <1>3, <1>11, HasIsPrefix DEF Committed

\* What a leader counts was acknowledged, and an acknowledgement of the term is true.
LEMMA CommitInvDurable == CommitInv => MatchIsDurable
<1> SUFFICES ASSUME CommitInv, NEW l \in Node, NEW j \in Node,
                    node[l].state = "Leader", disk[j].term = node[l].term
             PROVE  IsPrefix(SubSeq(node[l].log, 1, node[l].prog[j].match), disk[j].log)
  BY DEF MatchIsDurable
<1>1. PICK H \in SUBSET Seq(Entry), K \in SUBSET LeaderLog, A \in SUBSET StoredAck :
          Explains(H) /\ History(H, K, A) /\ LeadersCount(K, A)
  BY DEF CommitInv
<1>2. ElectionInv
  BY DEF CommitInv
<1> DEFINE k == node[l].prog[j].match
<1>3. /\ node[l].log \in Seq(Entry) /\ Len(node[l].log) \in Nat /\ node[l].term \in Nat
      /\ disk[j].log \in Seq(Entry) /\ k \in Nat
  <2>1. node[l] \in NodeState /\ disk[j] \in DiskState
    BY <1>2 DEF ElectionInv, TypeOK
  <2>2. node[l].prog[j] \in Progress
    BY <2>1 DEF NodeState
  <2>3. k \in Nat
    BY <2>2 DEF Progress
  <2> QED
    BY <2>1, <2>3 DEF NodeState, DiskState
<1>4. CASE k = 0
  <2>1. Has(disk[j].log, node[l].log, k)
    BY <1>3, <1>4 DEF Has
  <2> HIDE DEF k
  <2>2. IsPrefix(SubSeq(node[l].log, 1, k), disk[j].log)
    BY <1>3, <2>1, HasIsPrefix
  <2> QED
    BY <2>2 DEF k
<1>5. CASE k > 0
  <2>1. PICK s \in K : s.term = node[l].term /\ s.log = node[l].log
    BY <1>1 DEF LeadersCount, Counts
  <2>2. /\ \A r \in K : r.term = node[l].term => Len(r.log) =< Len(node[l].log)
        /\ <<j, node[l].term, k>> \in A
    BY <1>1, <1>5 DEF LeadersCount, Counts
  <2> HIDE DEF k
  <2>3. LedTo(K, node[l].term, k) /\ Shows(disk, K, A, disk[j], node[l].term, k)
    BY <1>1, <1>3, <2>2 DEF History, AcksHold
  <2>4. PICK r \in K : r.term = node[l].term /\ k =< Len(r.log)
    BY <2>3 DEF LedTo
  <2>5. Len(r.log) \in Nat /\ k =< Len(s.log)
    <3>1. Len(r.log) \in Nat /\ Len(r.log) =< Len(node[l].log)
      BY <2>2, <2>4, LeaderLogTypes
    <3> QED
      BY <1>3, <2>1, <2>4, <3>1
  <2>6. Has(disk[j].log, node[l].log, k)
    BY <1>3, <2>1, <2>3, <2>5 DEF Shows
  <2>7. IsPrefix(SubSeq(node[l].log, 1, k), disk[j].log)
    BY <1>3, <2>6, HasIsPrefix
  <2> QED
    BY <2>7 DEF k
<1> QED
  BY <1>3, <1>4, <1>5

\* What one node, of any number and after any restarts, has committed stays on the disks of a
\* quorum, whatever the network loses, repeats or reorders (maybeCommit, handleAppendEntries).
THEOREM CommitsStay == Spec => []CommittedIsOnQuorum
  BY CommitInvariant, CommitInvOnQuorum, PTL

\* Every leader has what any node has committed in its term or before (isUpToDate,
\* maybeCommit).
THEOREM LeadersAreComplete == Spec => []LeaderCompleteness
  BY CommitInvariant, CommitInvComplete, PTL

\* Whatever a leader counts as acknowledged is on the disk that acknowledged it, for as long
\* as that disk is in the leader's term (appendEntry, reset, the MsgAppResp case of
\* stepLeader).
THEOREM CountedIsDurable == Spec => []MatchIsDurable
  BY CommitInvariant, CommitInvDurable, PTL

-----------------------------------------------------------------------------
(***************************************************************************)
(* What the disks hold as committed: the oracle of the harness compares    *)
(* it, it only grows, and it is a replicated log.                          *)
(***************************************************************************)

\* No disk is ahead of its node
DiskLags == \A i \in Node : disk[i].commit =< node[i].commit

StoredCommits == CommitInv /\ DiskLags

LEMMA StoredInit == Init => StoredCommits
<1> SUFFICES ASSUME Init PROVE StoredCommits
  OBVIOUS
<1>1. CommitInv
  BY CommitInit
<1>2. \A i \in Node : node[i].commit = disk[i].commit /\ disk[i].commit \in Nat
  <2>1. \A i \in Node : node[i] = NewRaft(i, disk[i])
    BY DEF Init
  <2>2. disk \in [Node -> DiskState]
    BY <1>1 DEF CommitInv, ElectionInv, TypeOK
  <2> QED
    BY <2>1, <2>2, NewRaftCommit DEF DiskState
<1> QED
  BY <1>1, <1>2 DEF StoredCommits, DiskLags

\* Commit indexes never go down in memory, but for a restart, which takes that of the disk
LEMMA StoredCommitsStep == StoredCommits /\ [Next]_vars => StoredCommits'
<1> SUFFICES ASSUME StoredCommits, [Next]_vars PROVE StoredCommits'
  OBVIOUS
<1>1. CommitInv /\ CommitInv' /\ ElectionInv /\ StoredInv /\ DiskLags
  BY CommitInvStep DEF StoredCommits, CommitInv
<1>2. /\ node \in [Node -> NodeState] /\ disk \in [Node -> DiskState]
      /\ node' \in [Node -> NodeState] /\ disk' \in [Node -> DiskState]
  BY <1>1 DEF CommitInv, ElectionInv, TypeOK
<1>3. CASE UNCHANGED vars
  BY <1>1, <1>3 DEF vars, StoredCommits, DiskLags
<1>4. ASSUME NEW i \in Node, NEW o \in NodeState, Become(i, o), CommitStep(i, node[i], o)
      PROVE  DiskLags'
  <2>1. /\ disk' = disk /\ node'[i] = o /\ \A j \in Node \ {i} : node'[j] = node[j]
    BY <1>1, <1>4, BecomeFrame
  <2>2. o.commit >= node[i].commit
    BY <1>4 DEF CommitStep
  <2>3. /\ disk[i].commit \in Nat /\ node[i].commit \in Nat /\ o.commit \in Nat
        /\ disk[i].commit =< node[i].commit
    BY <1>1, <1>2 DEF DiskState, NodeState, DiskLags
  <2>4. disk'[i].commit =< node'[i].commit
    BY <2>1, <2>2, <2>3
  <2>5. \A j \in Node \ {i} : disk'[j].commit =< node'[j].commit
    BY <1>1, <2>1 DEF DiskLags
  <2> QED
    BY <2>4, <2>5 DEF DiskLags
<1>5. ASSUME NEW i \in Node, Ready(i) \/ Restart(i)
      PROVE  DiskLags'
  <2>1. \A j \in Node \ {i} : node'[j] = node[j] /\ disk'[j] = disk[j]
    BY <1>2, <1>5 DEF Ready, Restart
  <2>2. node'[i].commit = disk'[i].commit
    <3>1. CASE Ready(i)
      <4>1. disk'[i] = HardState(node[i])
        BY <1>2, <3>1 DEF Ready
      <4>2. node'[i].commit = node[i].commit
        BY <1>2, <3>1 DEF Ready, NodeState
      <4> QED
        BY <4>1, <4>2 DEF HardState
    <3>2. CASE Restart(i)
      <4>1. disk' = disk /\ node'[i] = NewRaft(i, disk[i])
        BY <1>2, <3>2 DEF Restart
      <4> QED
        BY <4>1, NewRaftCommit
    <3> QED
      BY <1>5, <3>1, <3>2
  <2>3. disk'[i].commit \in Nat
    BY <1>2 DEF DiskState
  <2>4. disk'[i].commit =< node'[i].commit
    BY <2>2, <2>3
  <2>5. \A j \in Node \ {i} : disk'[j].commit =< node'[j].commit
    BY <1>1, <2>1 DEF DiskLags
  <2> QED
    BY <2>4, <2>5 DEF DiskLags
<1>6. \/ UNCHANGED vars
      \/ \E i \in Node : \E o \in NodeState : Become(i, o) /\ CommitStep(i, node[i], o)
      \/ \E i \in Node : Ready(i) \/ Restart(i)
  BY <1>1, StepKinds
<1> QED
  BY <1>1, <1>3, <1>4, <1>5, <1>6 DEF StoredCommits

\* In every state, no disk holds a commit index that its node does not have, and all that is
\* known of what is committed holds.
THEOREM CommitsAreStored == Spec => []StoredCommits
  BY StoredInit, StoredCommitsStep, PTL DEF Spec

\* What two disks hold as committed
LEMMA DisksAgree ==
    ASSUME CommitInv, NEW i \in Node, NEW j \in Node, NEW k \in Nat,
           k =< disk[i].commit, k =< disk[j].commit
    PROVE  Has(disk[i].log, disk[j].log, k)
<1>1. PICK H \in SUBSET Seq(Entry), K \in SUBSET LeaderLog, A \in SUBSET StoredAck :
          Explains(H) /\ History(H, K, A) /\ LeadersCount(K, A)
  BY DEF CommitInv
<1>2. /\ disk[i].log \in Seq(Entry) /\ disk[i].commit \in Nat
      /\ disk[j].log \in Seq(Entry) /\ disk[j].commit \in Nat
  BY DEF CommitInv, ElectionInv, TypeOK, DiskState
<1>3. /\ Done(K, A, disk[i].term, disk[i].log, disk[i].commit)
      /\ Done(K, A, disk[j].term, disk[j].log, disk[j].commit)
  BY <1>1 DEF History, CommitsHold
<1>4. LeadersWrote(H, K) /\ LeadersHave(K, A)
  BY <1>1 DEF History
<1> QED
  BY <1>2, <1>3, <1>4, DonePair

\* What a disk holds as committed, its node has
LEMMA NodeHasDisk ==
    ASSUME StoredCommits, NEW i \in Node
    PROVE  Has(node[i].log, disk[i].log, disk[i].commit)
<1>1. CommitInv
  BY DEF StoredCommits
<1>2. PICK H \in SUBSET Seq(Entry), K \in SUBSET LeaderLog, A \in SUBSET StoredAck :
          Explains(H) /\ History(H, K, A) /\ LeadersCount(K, A)
  BY <1>1 DEF CommitInv
<1>3. /\ disk[i].log \in Seq(Entry) /\ disk[i].commit \in Nat
      /\ node[i].log \in Seq(Entry) /\ node[i].commit \in Nat
  BY <1>1 DEF CommitInv, ElectionInv, TypeOK, DiskState, NodeState
<1>4. /\ Done(K, A, disk[i].term, disk[i].log, disk[i].commit)
      /\ Done(K, A, node[i].term, node[i].log, node[i].commit)
  BY <1>2 DEF History, CommitsHold
<1>5. LeadersWrote(H, K) /\ LeadersHave(K, A) /\ disk[i].commit =< node[i].commit
  BY <1>2 DEF History, StoredCommits, DiskLags
<1> QED
  BY <1>3, <1>4, <1>5, DonePair

\* The log part of the oracle: a comparison of entries.
LEMMA CommitInvAgrees == CommitInv => CheckLogPrefix
<1> SUFFICES ASSUME CommitInv, NEW i \in Node, NEW j \in Node,
                    NEW k \in 1..Min({disk[i].commit, disk[j].commit})
             PROVE  disk[i].log[k] = disk[j].log[k]
  BY DEF CheckLogPrefix
<1>1. disk[i].commit \in Nat /\ disk[j].commit \in Nat
  BY DEF CommitInv, ElectionInv, TypeOK, DiskState
<1> DEFINE l == Min({disk[i].commit, disk[j].commit})
<1>2. l \in Nat /\ l =< disk[i].commit /\ l =< disk[j].commit
  BY <1>1, MinPair
<1> HIDE DEF l
<1>3. k \in 1..l
  BY DEF l
<1>4. Has(disk[i].log, disk[j].log, l)
  BY <1>2, DisksAgree
<1> QED
  BY <1>3, <1>4 DEF Has

\* The oracle never accuses raft: neither of two leaders of a term nor of two different
\* entries that nodes have given out at an index, although it looks at roles, terms and logs
\* of different moments (checkLogPrefix, checkLeaderUniqueness, Cluster.Step).
THEOREM OracleNeverAccuses == OracleSpec => []OracleIsQuiet
<1>1. OracleInit => Init
  BY DEF OracleInit
<1>2. [OracleNext]_oracleVars => [Next]_vars
  BY DEF OracleNext, oracleVars, vars
<1>3. OracleInit /\ [][OracleNext]_oracleVars => []CommitInv
  BY <1>1, <1>2, CommitInit, CommitInvStep, PTL
<1>4. CommitInv /\ CheckLeaderUniqueness => OracleIsQuiet
  BY CommitInvAgrees DEF OracleIsQuiet
<1> QED
  BY <1>3, <1>4, OracleSeesOneLeader, PTL DEF OracleSpec

-----------------------------------------------------------------------------
(***************************************************************************)
(* The disks as a replicated log.                                          *)
(***************************************************************************)

\* A disk keeps what it holds as committed, and learns more
LEMMA DiskKeeps ==
    ASSUME StoredCommits, [Next]_vars, NEW i \in Node
    PROVE  /\ Has(disk'[i].log, disk[i].log, disk[i].commit)
           /\ disk'[i].commit >= disk[i].commit
           /\ disk'[i].term >= disk[i].term
           /\ disk'[i].term = disk[i].term /\ disk[i].vote # None => disk'[i].vote = disk[i].vote
<1>1. ElectionInv /\ CommitInv
  BY DEF StoredCommits, CommitInv
<1>2. /\ disk \in [Node -> DiskState]
      /\ disk[i].log \in Seq(Entry) /\ disk[i].commit \in Nat /\ disk[i].term \in Nat
      /\ node[i].commit \in Nat /\ node[i].term \in Nat
  BY <1>1 DEF ElectionInv, TypeOK, DiskState, NodeState
<1>3. CASE Ready(i)
  <2>1. disk'[i] = HardState(node[i])
    BY <1>2, <1>3 DEF Ready
  <2>2. /\ disk'[i].log = node[i].log /\ disk'[i].commit = node[i].commit
        /\ disk'[i].term = node[i].term /\ disk'[i].vote = node[i].vote
    BY <2>1 DEF HardState
  <2>3. Has(node[i].log, disk[i].log, disk[i].commit)
    BY NodeHasDisk
  <2>4. /\ disk[i].commit =< node[i].commit /\ disk[i].term =< node[i].term
        /\ disk[i].term = node[i].term /\ disk[i].vote # None => node[i].vote = disk[i].vote
    BY <1>1 DEF StoredCommits, DiskLags, ElectionInv, DiskBehind
  <2> QED
    BY <1>2, <2>2, <2>3, <2>4
<1>4. CASE ~Ready(i)
  <2>1. disk'[i] = disk[i]
    BY <1>1, <1>4, DiskIsOwn
  <2>2. disk[i].commit =< Len(disk[i].log)
    BY <1>1, DisksAgree, <1>2 DEF Has
  <2>3. Has(disk[i].log, disk[i].log, disk[i].commit)
    BY <1>2, <2>2, HasSelf
  <2> QED
    BY <1>2, <2>1, <2>3
<1> QED
  BY <1>3, <1>4

\* A step never changes an entry that a disk holds as committed, and never takes back a term,
\* a commit index, or a vote within a term (raftLog.append, reset, the vote case of Step).
THEOREM DisksAdvance == Spec => DiskOnlyAdvances
<1>1. ASSUME StoredCommits, [Next]_vars, NEW i \in Node
      PROVE  /\ IsPrefix(SubSeq(disk[i].log, 1, disk[i].commit), disk'[i].log)
             /\ disk'[i].term >= disk[i].term
             /\ disk'[i].commit >= disk[i].commit
             /\ disk'[i].term = disk[i].term /\ disk[i].vote # None =>
                   disk'[i].vote = disk[i].vote
  <2>1. /\ Has(disk'[i].log, disk[i].log, disk[i].commit)
        /\ disk'[i].commit >= disk[i].commit
        /\ disk'[i].term >= disk[i].term
        /\ disk'[i].term = disk[i].term /\ disk[i].vote # None => disk'[i].vote = disk[i].vote
    BY <1>1, DiskKeeps
  <2>2. StoredCommits'
    BY <1>1, StoredCommitsStep
  <2>3. disk[i].log \in Seq(Entry) /\ disk'[i].log \in Seq(Entry) /\ disk[i].commit \in Nat
    BY <1>1, <2>2 DEF StoredCommits, CommitInv, ElectionInv, TypeOK, DiskState
  <2> QED
    BY <2>1, <2>3, HasIsPrefix
<1>2. StoredCommits /\ [Next]_vars =>
        [\A i \in Node :
            /\ IsPrefix(SubSeq(disk[i].log, 1, disk[i].commit), disk'[i].log)
            /\ disk'[i].term >= disk[i].term
            /\ disk'[i].commit >= disk[i].commit
            /\ disk'[i].term = disk[i].term /\ disk[i].vote # None =>
                  disk'[i].vote = disk[i].vote]_vars
  BY <1>1
<1> QED
  BY <1>2, CommitsAreStored, PTL DEF Spec, DiskOnlyAdvances

\* The beginnings of two logs that agree
LEMMA PartsArePrefix ==
    ASSUME NEW a \in Seq(Entry), NEW b \in Seq(Entry), NEW k \in Nat, NEW l \in Nat,
           Has(a, b, k), k =< l, l =< Len(a)
    PROVE  IsPrefix(SubSeq(b, 1, k), SubSeq(a, 1, l))
<1> DEFINE q == SubSeq(a, 1, l)
<1>1. \A x \in 1..l : a[x] \in Entry
  BY ElementOfSeq
<1>2. /\ q \in Seq(Entry) /\ Len(q) = (IF 1 =< l THEN l - 1 + 1 ELSE 0)
      /\ \A x \in 1..l - 1 + 1 : q[x] = a[1 + x - 1]
  BY <1>1, SubSeqProperties
<1> HIDE DEF q
<1>3. Len(q) = l /\ \A x \in 1..l : q[x] = a[x]
  BY <1>2
<1>4. Has(q, b, k)
  BY <1>3 DEF Has
<1>5. IsPrefix(SubSeq(b, 1, k), q)
  BY <1>2, <1>4, HasIsPrefix
<1> QED
  BY <1>5 DEF q

\* Among finitely many nodes one has the largest number: the nodes that have at least as much
\* as it are contained in those that have at least as much as any other
LEMMA LargestOf ==
    ASSUME NEW f, \A i \in Node : f[i] \in Nat
    PROVE  \E i \in Node : \A j \in Node : f[j] =< f[i]
<1> DEFINE G(i) == {j \in Node : f[j] >= f[i]}
           T == {G(i) : i \in Node}
           O == StrictSubsetOrdering(Node)
<1>1. IsWellFoundedOn(O, FiniteSubsetsOf(Node))
  BY FS_StrictSubsetOrderingWellFounded
<1>2. T \subseteq FiniteSubsetsOf(Node) /\ T # {}
  <2>1. \A i \in Node : IsFiniteSet(G(i)) /\ G(i) \in SUBSET Node
    <3>1. \A i \in Node : G(i) \in SUBSET Node
      OBVIOUS
    <3> HIDE DEF G
    <3> QED
      BY <3>1, NodeAssumption, FS_Subset
  <2> HIDE DEF G
  <2>2. T # {}
    BY NodeAssumption
  <2> QED
    BY <2>1, <2>2 DEF FiniteSubsetsOf
<1>3. \E t \in T : \A u \in T : ~ (<<u, t>> \in O)
  <2> HIDE DEF T, O
  <2> QED
    BY <1>1, <1>2, WFMin
<1>4. PICK i \in Node : \A j \in Node : ~ (<<G(j), G(i)>> \in O)
  BY <1>3
<1>5. ASSUME NEW j \in Node, f[j] > f[i]
      PROVE  <<G(j), G(i)>> \in O
  <2>1. G(j) \subseteq G(i) /\ i \in G(i) /\ i \notin G(j)
    BY <1>5
  <2>2. G(j) \in SUBSET Node /\ G(i) \in SUBSET Node
    OBVIOUS
  <2> HIDE DEF G
  <2> QED
    BY <2>1, <2>2 DEF StrictSubsetOrdering
<1>6. ASSUME NEW j \in Node
      PROVE  f[j] =< f[i]
  <2>1. ~ (f[j] > f[i])
    <3> HIDE DEF O, G
    <3> QED
      BY <1>4, <1>5
  <2> QED
    BY <2>1
<1> QED
  BY <1>6

\* What is known to one node and to another with at least its commit index
LEMMA KnownPrefix ==
    ASSUME CommitInv, NEW i \in Node, NEW j \in Node, disk[i].commit =< disk[j].commit
    PROVE  IsPrefix(Known(i), Known(j))
<1>1. /\ disk[i].log \in Seq(Entry) /\ disk[i].commit \in Nat
      /\ disk[j].log \in Seq(Entry) /\ disk[j].commit \in Nat
  BY DEF CommitInv, ElectionInv, TypeOK, DiskState
<1>2. /\ Has(disk[j].log, disk[i].log, disk[i].commit)
      /\ Has(disk[j].log, disk[j].log, disk[j].commit)
  BY <1>1, DisksAgree
<1>3. disk[j].commit =< Len(disk[j].log)
  BY <1>2 DEF Has
<1> QED
  BY <1>1, <1>2, <1>3, PartsArePrefix DEF Known

\* What is chosen is what some node knows that knows the most
LEMMA ChosenIsKnown ==
    ASSUME CommitInv
    PROVE  \E i \in Node : /\ Chosen = Known(i)
                           /\ \A j \in Node : disk[j].commit =< disk[i].commit
<1> DEFINE f == [i \in Node |-> disk[i].commit]
           P(i) == \A j \in Node : disk[j].commit <= disk[i].commit
<1>1. \A i \in Node : f[i] \in Nat
  BY DEF CommitInv, ElectionInv, TypeOK, DiskState
<1>2. \E i \in Node : \A j \in Node : f[j] =< f[i]
  <2> HIDE DEF f
  <2> QED
    BY <1>1, LargestOf
<1>3. \E i \in Node : P(i)
  BY <1>2
<1> DEFINE c == CHOOSE i \in Node : P(i)
<1>4. c \in Node /\ P(c)
  BY <1>3
<1>5. Chosen = Known(c)
  BY DEF Chosen
<1> HIDE DEF c
<1> QED
  BY <1>4, <1>5

\* What is known is part of what is chosen
LEMMA KnownIsChosen ==
    ASSUME CommitInv, NEW i \in Node
    PROVE  IsPrefix(Known(i), Chosen)
<1>1. PICK m \in Node : Chosen = Known(m) /\ \A j \in Node : disk[j].commit =< disk[m].commit
  BY ChosenIsKnown
<1> QED
  BY <1>1, KnownPrefix

\* What is committed is one log that only grows, of which every disk holds a prefix that only
\* grows, for any number of nodes, terms and restarts (maybeCommit, handleAppendEntries,
\* Cluster.Step).
THEOREM RaftIsReplicatedLog == Spec => ImplementsReplicatedLog
<1>1. Init => Abstract!Init
  <2> SUFFICES ASSUME Init PROVE Abstract!Init
    OBVIOUS
  <2>1. \A i \in Node : IsPrefix(Known(i), Chosen)
    BY CommitInit, KnownIsChosen
  <2> QED
    BY <2>1 DEF Abstract!Init, Abstract!IsPrefix, IsPrefix
<1>2. ASSUME CommitInv, NEW i \in Node
      PROVE  /\ disk[i].log \in Seq(Entry) /\ disk[i].commit \in Nat
             /\ disk[i].commit =< Len(disk[i].log) /\ IsPrefix(Known(i), Chosen)
  <2>1. disk[i].log \in Seq(Entry) /\ disk[i].commit \in Nat
    BY <1>2 DEF CommitInv, ElectionInv, TypeOK, DiskState
  <2>2. Has(disk[i].log, disk[i].log, disk[i].commit)
    BY <1>2, <2>1, DisksAgree
  <2> QED
    BY <1>2, <2>1, <2>2, KnownIsChosen DEF Has
<1>3. CommitInv => \A i \in Node :
             /\ disk[i].log \in Seq(Entry) /\ disk[i].commit \in Nat
             /\ disk[i].commit =< Len(disk[i].log) /\ IsPrefix(Known(i), Chosen)
  BY <1>2
<1>4. (CommitInv => \A i \in Node :
             /\ disk[i].log \in Seq(Entry) /\ disk[i].commit \in Nat
             /\ disk[i].commit =< Len(disk[i].log) /\ IsPrefix(Known(i), Chosen))'
  BY <1>3, PTL
<1>5. ASSUME StoredCommits, StoredCommits', [Next]_vars
      PROVE  Abstract!Grow
  <2>1. CommitInv /\ CommitInv'
    BY <1>5 DEF StoredCommits
  <2>2. ASSUME NEW i \in Node
        PROVE  /\ IsPrefix(Known(i), Known(i)') /\ IsPrefix(Known(i)', Chosen')
               /\ disk[i].commit =< disk'[i].commit
    <3>1. /\ Has(disk'[i].log, disk[i].log, disk[i].commit)
          /\ disk'[i].commit >= disk[i].commit
      BY <1>5, DiskKeeps
    <3>2. disk[i].log \in Seq(Entry) /\ disk[i].commit \in Nat
      BY <1>3, <2>1
    <3>3. /\ disk'[i].log \in Seq(Entry) /\ disk'[i].commit \in Nat
          /\ disk'[i].commit =< Len(disk'[i].log) /\ IsPrefix(Known(i)', Chosen')
      BY <1>4, <2>1
    <3>4. disk[i].commit =< disk'[i].commit
      BY <3>1, <3>2, <3>3
    <3>5. IsPrefix(SubSeq(disk[i].log, 1, disk[i].commit),
                   SubSeq(disk'[i].log, 1, disk'[i].commit))
      BY <3>1, <3>2, <3>3, <3>4, PartsArePrefix
    <3> QED
      BY <3>3, <3>4, <3>5 DEF Known
  <2>3. IsPrefix(Chosen, Chosen')
    <3>1. PICK m \in Node : Chosen = Known(m)
      BY <2>1, ChosenIsKnown
    <3>2. IsPrefix(Known(m), Known(m)') /\ IsPrefix(Known(m)', Chosen')
      BY <2>2
    <3>3. IsPrefix(Known(m), Chosen')
      BY <3>2 DEF IsPrefix
    <3> QED
      BY <3>1, <3>3
  <2>4. \A i \in Node : IsPrefix(Known(i), Known(i)') /\ IsPrefix(Known(i)', Chosen')
    BY <2>2
  <2> QED
    BY <2>3, <2>4 DEF Abstract!Grow, Abstract!IsPrefix, IsPrefix
<1>6. StoredCommits /\ StoredCommits' /\ [Next]_vars => [Abstract!Grow]_(Abstract!vars)
  BY <1>5
<1> QED
  BY <1>1, <1>6, CommitsAreStored, PTL DEF Spec, ImplementsReplicatedLog, Abstract!Spec


-----------------------------------------------------------------------------
(***************************************************************************)
(* Who says what to whom: what a node may send, in which term it is, whom  *)
(* it follows, and what it has sent a peer.  Raft panics on none of it.    *)
(***************************************************************************)

\* A message that may raise the term of who receives it
Raises(m) == m.type \notin {"MsgPreVote", "MsgProp"} /\ ~(m.type = "MsgPreVoteResp" /\ ~m.reject)

\* A peer is never sent what the leader does not have
NextOK(n) ==
    \A j \in Node : n.prog[j].match < n.prog[j].next /\ n.prog[j].next =< LastIndex(n) + 1

\* What a node answers itself: no rejection, and nothing of a term that it is not yet in
Answers(n, m) ==
    /\ m.type = "MsgAppResp" => ~m.reject
    /\ Raises(m) => m.term =< n.term

\* Only a leader follows itself, and nobody hands over to itself
Sane(i, n) ==
    /\ n.state = "Leader" <=> n.lead = i
    /\ n.transferee # i
    /\ \A k \in 1..Len(n.self) : Answers(n, n.self[k])
    /\ \A k \in 1..Len(n.steps) : Answers(n, n.steps[k])
    /\ n.state = "Leader" => NextOK(n)

\* What node i in state o may say
Polite(i, o, m) ==
    /\ m.to # i
    /\ IF m.type = "MsgTransferLeader" THEN m.to = o.lead ELSE m.from = i
    /\ m.type \in {"MsgHeartbeat", "MsgTimeoutNow"} => o.state = "Leader"
    /\ m.type = "MsgTimeoutNow" => o.prog[m.to].match = LastIndex(o)
    /\ Raises(m) => m.term = o.term

\* A message that shows that a term has had a candidate, and a term that has had one
Elects(m) == m.type \in {"MsgVote", "MsgApp", "MsgHeartbeat"}

Rooted(S, t) == t =< 1 \/ \E m \in S : Elects(m) /\ m.term = t

\* Who has granted node i a pre-vote of term t or later, as far as i may be told
Backers(i, t) ==
    {j \in Node : \/ j = i
                  \/ \E m \in msgs : /\ m.type = "MsgPreVoteResp" /\ ~m.reject
                                     /\ m.from = j /\ m.to = i /\ m.term >= t}

\* How a step of node i may change whom it follows, its term and vote, and who backs it
Follow(i, n, o) ==
    \/ o.lead \in {None, i}
    \/ o.lead = n.lead /\ o.term = n.term
    \/ \E m \in msgs : /\ m.type \in {"MsgApp", "MsgHeartbeat"}
                       /\ m.from = o.lead /\ m.term = o.term

Enters(i, n, o) ==
    \/ o.term = n.term /\ (n.vote # None => o.vote # None)
    \/ /\ o.vote # None
       /\ \A j \in Node \ {i} : \E m \in o.outbox : m.type = "MsgVote" /\ m.term = o.term
    \/ \E m \in msgs : Raises(m) /\ m.term = o.term

Collects(i, n, o) ==
    o.state = "PreCandidate" =>
        /\ n.state = "PreCandidate" \/ PreVote
        /\ o.granted \subseteq (IF n.state = "PreCandidate" /\ o.term = n.term
                                THEN n.granted ELSE {}) \cup Backers(i, o.term)

\* What a step of node i from n to o may do
Fair(i, n, o) ==
    /\ o.term >= n.term
    /\ n.outbox \subseteq o.outbox
    /\ \A m \in o.outbox \ n.outbox : Polite(i, o, m)
    /\ Follow(i, n, o) /\ Enters(i, n, o) /\ Collects(i, n, o)

\* Nobody talks to itself, and a transfer alone is asked for in the name of another
Apart ==
    /\ \A i \in Node : Sane(i, node[i])
    /\ \A i \in Node : \A m \in node[i].outbox :
          m.to # i /\ (m.type # "MsgTransferLeader" => m.from = i)
    /\ \A m \in msgs : m.type # "MsgTransferLeader" => m.from # m.to

\* Whoever is followed, sends a heartbeat, or is passed a transfer request was elected
FollowedWereElected ==
    /\ \A i \in Node :
          node[i].lead # None => Supporters(node[i].lead, node[i].term) \in Quorum
    /\ \A m \in AllMsgs :
          /\ m.type = "MsgHeartbeat" => Supporters(m.from, m.term) \in Quorum
          /\ m.type = "MsgTransferLeader" => Supporters(m.to, m.term) \in Quorum

\* Terms have had candidates, whose requests are on their way unless they are their own
TermsAreRooted ==
    /\ \A i \in Node :
          /\ disk[i].vote # None \/ Rooted(msgs, disk[i].term)
          /\ node[i].vote # None \/ Rooted(msgs, node[i].term)
          /\ Node = {i} \/ Rooted(msgs, disk[i].term)
          /\ Node = {i} \/ Rooted(msgs \cup node[i].outbox, node[i].term)
          /\ \A m \in node[i].outbox : Raises(m) => Rooted(msgs \cup node[i].outbox, m.term)
    /\ \A m \in msgs : Raises(m) => Rooted(msgs, m.term)

\* There are pre-candidates only with pre-votes, and one counts what it was granted
BackedByGrants ==
    \A i \in Node :
        node[i].state = "PreCandidate" =>
            PreVote /\ node[i].granted \subseteq Backers(i, node[i].term)

\* A record s (a node, a disk) that is in term t has an entry of it
HasTerm(s, t) == s.term = t => \E k \in 1..Len(s.log) : s.log[k].term = t

\* Whoever is told to take over has an entry of the term, in memory and stored
TransfereesHaveIt ==
    \A m \in AllMsgs :
        m.type = "MsgTimeoutNow" =>
            /\ disk[m.to].term >= m.term
            /\ HasTerm(disk[m.to], m.term) /\ HasTerm(node[m.to], m.term)

\* The inductive invariant, besides that of commits
Manners == Apart /\ FollowedWereElected /\ TermsAreRooted /\ BackedByGrants /\ TransfereesHaveIt

SpeechInv == CommitInv /\ Manners

-----------------------------------------------------------------------------
(***************************************************************************)
(* How these changes compose.                                              *)
(***************************************************************************)

\* A change that only sends, and what it keeps
Sends(i, n, o) ==
    /\ o.lead = n.lead /\ o.term = n.term /\ o.state = n.state /\ o.vote = n.vote
    /\ o.granted = n.granted /\ o.transferee = n.transferee /\ o.log = n.log
    /\ o.self = n.self /\ o.steps = n.steps
    /\ n.outbox \subseteq o.outbox
    /\ \A j \in Node : o.prog[j].match = n.prog[j].match
    /\ \A m \in o.outbox \ n.outbox : Polite(i, o, m)
    /\ n.state = "Leader" /\ NextOK(n) => NextOK(o)

\* One change after another, of which the first sends nothing
LEMMA FairTrans ==
    ASSUME NEW i \in Node, NEW n \in NodeState, NEW a \in NodeState, NEW o \in NodeState,
           Fair(i, n, a), Fair(i, a, o), a.outbox = n.outbox
    PROVE  Fair(i, n, o)
<1>1. n.term \in Nat /\ a.term \in Nat /\ o.term \in Nat
  BY DEF NodeState
<1>2. o.term >= n.term /\ n.outbox \subseteq o.outbox
      /\ \A m \in o.outbox \ n.outbox : Polite(i, o, m)
  BY <1>1 DEF Fair
<1>3. Follow(i, n, o)
  BY DEF Fair, Follow
<1>4. Enters(i, n, o)
  BY DEF Fair, Enters
<1>5. Collects(i, n, o)
  <2> DEFINE counted(x) == IF x.state = "PreCandidate" /\ o.term = x.term THEN x.granted ELSE {}
  <2> SUFFICES ASSUME o.state = "PreCandidate" PROVE Collects(i, n, o)
    BY DEF Collects
  <2>1. a.state = "PreCandidate" \/ PreVote
    BY DEF Fair, Collects
  <2>2. a.state = "PreCandidate" => n.state = "PreCandidate" \/ PreVote
    BY DEF Fair, Collects
  <2>3. o.granted \subseteq counted(a) \cup Backers(i, o.term)
    BY DEF Fair, Collects
  <2>4. a.state = "PreCandidate" /\ o.term = a.term =>
            a.granted \subseteq counted(n) \cup Backers(i, o.term)
    BY DEF Fair, Collects
  <2>5. o.granted \subseteq counted(n) \cup Backers(i, o.term)
    BY <2>3, <2>4
  <2> QED
    BY <2>1, <2>2, <2>5 DEF Collects
<1> QED
  BY <1>2, <1>3, <1>4, <1>5 DEF Fair

\* Who stays as it is may say the same
LEMMA PoliteStays ==
    ASSUME NEW i \in Node, NEW n, NEW o, NEW m \in Message, Polite(i, n, m),
           o.lead = n.lead, o.term = n.term, o.state = n.state, o.log = n.log,
           \A j \in Node : o.prog[j].match = n.prog[j].match
    PROVE  Polite(i, o, m)
<1>1. m.to \in Node
  BY MessageFields
<1> QED
  BY <1>1 DEF Polite, LastIndex

LEMMA SendsTrans ==
    ASSUME NEW i \in Node, NEW n \in NodeState, NEW a \in NodeState, NEW o \in NodeState,
           Sends(i, n, a), Sends(i, a, o)
    PROVE  Sends(i, n, o)
<1>1. a.outbox \subseteq Message
  BY DEF NodeState
<1>2. \A m \in a.outbox \ n.outbox : Polite(i, o, m)
  BY <1>1, PoliteStays DEF Sends
<1>3. \A m \in o.outbox \ n.outbox : Polite(i, o, m)
  BY <1>2 DEF Sends
<1> QED
  BY <1>3 DEF Sends

LEMMA SendsSelf ==
    ASSUME NEW i \in Node, NEW n \in NodeState
    PROVE  Sends(i, n, n)
  BY DEF Sends

\* A node that only sends stays sane
LEMMA SendsFair ==
    ASSUME NEW i \in Node, NEW n \in NodeState, NEW o \in NodeState, Sane(i, n), Sends(i, n, o)
    PROVE  Sane(i, o) /\ Fair(i, n, o)
<1>1. n.term \in Nat
  BY DEF NodeState
<1>2. \A m : Answers(n, m) => Answers(o, m)
  BY DEF Sends, Answers
<1>3. Sane(i, o)
  BY <1>2 DEF Sends, Sane
<1>4. Follow(i, n, o) /\ Enters(i, n, o) /\ Collects(i, n, o) /\ o.term >= n.term
  BY <1>1 DEF Sends, Follow, Enters, Collects
<1> QED
  BY <1>3, <1>4 DEF Fair, Sends

\* One change that sends nothing, and then one that only sends
LEMMA FairThenSends ==
    ASSUME NEW i \in Node, NEW n \in NodeState, NEW a \in NodeState, NEW o \in NodeState,
           Sane(i, a), Fair(i, n, a), Sends(i, a, o), a.outbox = n.outbox
    PROVE  Sane(i, o) /\ Fair(i, n, o)
  BY SendsFair, FairTrans

LEMMA FairSelf ==
    ASSUME NEW i \in Node, NEW n \in NodeState
    PROVE  Fair(i, n, n)
<1>1. n.term >= n.term
  BY DEF NodeState
<1> QED
  BY <1>1 DEF Fair, Follow, Enters, Collects

-----------------------------------------------------------------------------
(***************************************************************************)
(* What a leader sends.                                                    *)
(***************************************************************************)

\* Some messages
LEMMA SendSends ==
    ASSUME NEW i \in Node, NEW n \in NodeState, NEW ms \in SUBSET Message,
           \A m \in ms : Polite(i, n, m)
    PROVE  Sends(i, n, Send(n, ms))
<1> DEFINE o == Send(n, ms)
<1>1. /\ o.lead = n.lead /\ o.term = n.term /\ o.state = n.state /\ o.vote = n.vote
      /\ o.granted = n.granted /\ o.transferee = n.transferee /\ o.log = n.log
      /\ o.self = n.self /\ o.steps = n.steps /\ o.prog = n.prog
      /\ o.outbox = n.outbox \cup ms
  BY DEF Send, NodeState
<1> HIDE DEF o
<1>2. \A m \in ms : Polite(i, o, m)
  BY <1>1, PoliteStays
<1>3. NextOK(n) => NextOK(o)
  BY <1>1 DEF NextOK, LastIndex
<1> QED
  BY <1>1, <1>2, <1>3 DEF Sends, o

\* A commit index changes nothing of concern here
LEMMA CommitSends ==
    ASSUME NEW i \in Node, NEW n \in NodeState, NEW c
    PROVE  Sends(i, n, [n EXCEPT !.commit = c])
<1> DEFINE o == [n EXCEPT !.commit = c]
<1>1. /\ o.lead = n.lead /\ o.term = n.term /\ o.state = n.state /\ o.vote = n.vote
      /\ o.granted = n.granted /\ o.transferee = n.transferee /\ o.log = n.log
      /\ o.self = n.self /\ o.steps = n.steps /\ o.prog = n.prog
      /\ o.outbox = n.outbox
  BY DEF NodeState
<1> HIDE DEF o
<1>2. NextOK(n) => NextOK(o)
  BY <1>1 DEF NextOK, LastIndex
<1> QED
  BY <1>1, <1>2 DEF Sends, o

\* A message with entries, which are in the log
LEMMA AppPolite ==
    ASSUME NEW i \in Node, NEW n \in NodeState, NEW o, NEW j \in Node \ {i}, NEW next \in Nat \ {0},
           o.term = n.term
    PROVE  Polite(i, o, App(i, n, j, next))
<1>1. LET m == App(i, n, j, next)
      IN  m.to = j /\ m.from = i /\ m.type = "MsgApp" /\ m.term = n.term
  BY DEF App
<1> QED
  BY <1>1 DEF Polite

LEMMA AppCount ==
    ASSUME NEW i \in Node, NEW n \in NodeState, NEW j \in Node, NEW next \in Nat \ {0},
           next =< LastIndex(n) + 1
    PROVE  /\ Len(App(i, n, j, next).entries) \in Nat
           /\ next + Len(App(i, n, j, next).entries) =< LastIndex(n) + 1
<1>1. MaxEnts \in Nat \ {0} /\ LastIndex(n) \in Nat /\ n.log \in Seq(Entry)
  BY OptionAssumption, LastIndexType DEF NodeState
<1> DEFINE last == Min({next + MaxEnts - 1, LastIndex(n)})
<1>2. last \in Nat /\ last =< LastIndex(n) /\ last =< Len(n.log)
  BY <1>1, MinPair DEF LastIndex
<1>3. App(i, n, j, next).entries = SubSeq(n.log, next, last)
  BY DEF App
<1> HIDE DEF last
<1>4. Len(SubSeq(n.log, next, last)) = IF next =< last THEN last - next + 1 ELSE 0
  BY <1>1, <1>2
<1> QED
  BY <1>1, <1>2, <1>3, <1>4

\* maybeSendAppend: the next index moves no further than the log
LEMMA MaybeSendAppendSends ==
    ASSUME NEW i \in Node, NEW n \in NodeState,
           NEW peers \in SUBSET (Node \ {i}), NEW sendIfEmpty \in BOOLEAN
    PROVE  Sends(i, n, MaybeSendAppend(i, n, peers, sendIfEmpty))
<1> DEFINE o == MaybeSendAppend(i, n, peers, sendIfEmpty)
           app(j) == App(i, n, j, n.prog[j].next)
           to == {j \in peers : /\ ~n.prog[j].paused
                                /\ sendIfEmpty \/ app(j).entries # <<>>}
           count(j) == Len(app(j).entries)
           sent(j) == [SentEntries(n.prog[j], count(j)) EXCEPT !.sentCommit = n.commit]
<1>1. /\ o.lead = n.lead /\ o.term = n.term /\ o.state = n.state /\ o.vote = n.vote
      /\ o.granted = n.granted /\ o.transferee = n.transferee /\ o.log = n.log
      /\ o.self = n.self /\ o.steps = n.steps /\ n.outbox \subseteq o.outbox
  BY DEF MaybeSendAppend, NodeState
<1>2. \A m \in o.outbox \ n.outbox : \E j \in Node \ {i} : m = App(i, n, j, n.prog[j].next)
  BY DEF MaybeSendAppend, NodeState
<1>3. o.prog = [j \in Node |-> IF j \in to THEN sent(j) ELSE n.prog[j]]
  BY DEF MaybeSendAppend, NodeState
<1>4. ASSUME NEW j \in Node, NEW c \in Nat
      PROVE  LET s == [SentEntries(n.prog[j], c) EXCEPT !.sentCommit = n.commit]
             IN  s.match = n.prog[j].match /\ s.next \in {n.prog[j].next, n.prog[j].next + c}
  <2>1. n.prog[j] \in Progress
    BY ProgType
  <2> QED
    BY <2>1 DEF SentEntries, Progress
<1>5. ASSUME NEW j \in Node
      PROVE  /\ sent(j).match = n.prog[j].match
             /\ n.prog[j].next =< LastIndex(n) + 1 =>
                  n.prog[j].next =< sent(j).next /\ sent(j).next =< LastIndex(n) + 1
  <2>1. n.prog[j].next \in Nat \ {0} /\ count(j) \in Nat /\ LastIndex(n) \in Nat
    BY ProgType, AppType, LastIndexType
  <2>2. n.prog[j].next =< LastIndex(n) + 1 => n.prog[j].next + count(j) =< LastIndex(n) + 1
    BY <2>1, AppCount
  <2> HIDE DEF count
  <2>3. sent(j).match = n.prog[j].match /\ sent(j).next \in {n.prog[j].next, n.prog[j].next + count(j)}
    BY <1>4, <2>1
  <2> HIDE DEF sent
  <2> QED
    BY <2>1, <2>2, <2>3
<1> HIDE DEF o, sent, to
<1>6. \A j \in Node : o.prog[j].match = n.prog[j].match
  BY <1>3, <1>5
<1>7. \A m \in o.outbox \ n.outbox : Polite(i, o, m)
  BY <1>1, <1>2, ProgType, AppPolite
<1>8. NextOK(n) => NextOK(o)
  <2> SUFFICES ASSUME NextOK(n), NEW j \in Node
               PROVE  o.prog[j].match < o.prog[j].next /\ o.prog[j].next =< LastIndex(n) + 1
    BY <1>1 DEF NextOK, LastIndex
  <2>1. /\ n.prog[j].match < n.prog[j].next /\ n.prog[j].next =< LastIndex(n) + 1
        /\ n.prog[j].match \in Nat /\ n.prog[j].next \in Nat /\ LastIndex(n) \in Nat
    BY ProgType, LastIndexType DEF NextOK
  <2>2. CASE j \in to
    <3>1. o.prog[j] = sent(j)
      BY <1>3, <2>2
    <3>2. sent(j).next \in Nat
      <4>1. n.prog[j].next \in Nat \ {0} /\ count(j) \in Nat
        BY ProgType, AppType
      <4> HIDE DEF count
      <4> QED
        BY <1>4, <4>1 DEF sent
    <3> QED
      BY <1>5, <2>1, <3>1, <3>2
  <2>3. CASE j \notin to
    BY <1>3, <2>1, <2>3
  <2> QED
    BY <2>2, <2>3
<1> QED
  BY <1>1, <1>6, <1>7, <1>8 DEF Sends, o

\* The loop that sends a peer what is left: all of the log, and no more
LEMMA SendRestSends ==
    ASSUME NEW i \in Node, NEW n \in NodeState, NEW j \in Node \ {i}
    PROVE  Sends(i, n, SendRest(i, n, j))
<1> DEFINE o == SendRest(i, n, j)
           next == n.prog[j].next
<1>1. /\ o.lead = n.lead /\ o.term = n.term /\ o.state = n.state /\ o.vote = n.vote
      /\ o.granted = n.granted /\ o.transferee = n.transferee /\ o.log = n.log
      /\ o.self = n.self /\ o.steps = n.steps /\ n.outbox \subseteq o.outbox
  BY DEF SendRest, NodeState
<1>2. \A m \in o.outbox \ n.outbox : \E k \in next..LastIndex(n) : m = App(i, n, j, k)
  BY DEF SendRest, NodeState
<1>3. /\ \A k \in Node : o.prog[k].match = n.prog[k].match
      /\ \A k \in Node \ {j} : o.prog[k] = n.prog[k]
  BY ProgType DEF SendRest, NodeState, Progress
<1>4. (next..LastIndex(n) # {} /\ o.prog[j].next = LastIndex(n) + 1) \/ o.prog[j] = n.prog[j]
  <2> DEFINE starts == {k \in next..LastIndex(n) : (k - next) % MaxEnts = 0}
  <2>1. CASE starts = {}
    BY <2>1 DEF SendRest
  <2>2. CASE starts # {}
    <3>1. next..LastIndex(n) # {}
      BY <2>2
    <3> HIDE DEF starts
    <3>2. /\ n.prog[j] \in Progress /\ n.prog \in [Node -> Progress]
          /\ o = [n EXCEPT !.outbox = @ \cup {App(i, n, j, k) : k \in starts},
                           !.prog[j] = [@ EXCEPT !.next = LastIndex(n) + 1,
                                                 !.sentCommit = n.commit]]
      BY <2>2, ProgType DEF SendRest, starts, NodeState
    <3> HIDE DEF o
    <3>3. o.prog[j] = [n.prog[j] EXCEPT !.next = LastIndex(n) + 1, !.sentCommit = n.commit]
      BY <3>2 DEF NodeState
    <3>4. o.prog[j].next = LastIndex(n) + 1
      BY <3>2, <3>3 DEF Progress
    <3> QED
      BY <3>1, <3>4
  <2> QED
    BY <2>1, <2>2
<1>5. next \in Nat \ {0} /\ LastIndex(n) \in Nat /\ n.prog[j].match \in Nat
  BY ProgType, LastIndexType
<1> HIDE DEF o
<1>6. \A m \in o.outbox \ n.outbox : Polite(i, o, m)
  <2>1. next..LastIndex(n) \subseteq Nat \ {0}
    BY <1>5
  <2> HIDE DEF next
  <2> QED
    BY <1>1, <1>2, <2>1, AppPolite
<1>7. NextOK(n) => NextOK(o)
  <2> SUFFICES ASSUME NextOK(n), NEW k \in Node
               PROVE  o.prog[k].match < o.prog[k].next /\ o.prog[k].next =< LastIndex(n) + 1
    BY <1>1 DEF NextOK, LastIndex
  <2>1. CASE k = j
    BY <1>3, <1>4, <1>5, <2>1 DEF NextOK
  <2>2. CASE k # j
    BY <1>3, <2>2 DEF NextOK
  <2> QED
    BY <2>1, <2>2
<1> QED
  BY <1>1, <1>3, <1>6, <1>7 DEF Sends, o

LEMMA BcastAppendSends ==
    ASSUME NEW i \in Node, NEW n \in NodeState
    PROVE  Sends(i, n, BcastAppend(i, n))
  BY MaybeSendAppendSends DEF BcastAppend

\* bcastHeartbeat
LEMMA BcastHeartbeatSends ==
    ASSUME NEW i \in Node, NEW n \in NodeState, NEW ctxs \in SUBSET Nat, n.state = "Leader"
    PROVE  Sends(i, n, BcastHeartbeat(i, n, ctxs))
<1> DEFINE o == BcastHeartbeat(i, n, ctxs)
           commit(j) == Min({n.prog[j].match, n.commit})
           beat(j, c) == [type |-> "MsgHeartbeat", from |-> i, to |-> j, term |-> n.term,
                          commit |-> commit(j), ctx |-> c]
           told(j) == [n.prog[j] EXCEPT !.sentCommit = commit(j)]
<1>1. /\ o.lead = n.lead /\ o.term = n.term /\ o.state = n.state /\ o.vote = n.vote
      /\ o.granted = n.granted /\ o.transferee = n.transferee /\ o.log = n.log
      /\ o.self = n.self /\ o.steps = n.steps
      /\ o.outbox = n.outbox \cup {beat(j, c) : j \in Node \ {i}, c \in ctxs}
      /\ o.prog = [j \in Node |-> IF j = i THEN n.prog[j] ELSE told(j)]
  BY DEF BcastHeartbeat, NodeState
<1>2. \A j \in Node : told(j).match = n.prog[j].match /\ told(j).next = n.prog[j].next
  <2> HIDE DEF commit
  <2> QED
    BY ProgType DEF Progress
<1> HIDE DEF o, commit, told
<1>3. \A j \in Node : o.prog[j].match = n.prog[j].match /\ o.prog[j].next = n.prog[j].next
  BY <1>1, <1>2
<1>4. \A m \in o.outbox \ n.outbox : Polite(i, o, m)
  BY <1>1 DEF Polite
<1>5. NextOK(n) => NextOK(o)
  BY <1>1, <1>3 DEF NextOK, LastIndex
<1> QED
  BY <1>1, <1>3, <1>4, <1>5 DEF Sends, o

-----------------------------------------------------------------------------
(***************************************************************************)
(* What a leader does with an answer.                                      *)
(***************************************************************************)

\* Good progress in the place of good progress
LEMMA SetProgFair ==
    ASSUME NEW i \in Node, NEW n \in NodeState, Sane(i, n), NEW j \in Node, NEW pr \in Progress,
           n.state = "Leader" => pr.match < pr.next /\ pr.next =< LastIndex(n) + 1
    PROVE  LET o == [n EXCEPT !.prog[j] = pr]
           IN  /\ Sane(i, o) /\ Fair(i, n, o) /\ o.outbox = n.outbox /\ o.state = n.state
               /\ o.term = n.term /\ o.log = n.log /\ o.prog[j] = pr
<1> DEFINE o == [n EXCEPT !.prog[j] = pr]
<1>1. /\ o.lead = n.lead /\ o.term = n.term /\ o.state = n.state /\ o.vote = n.vote
      /\ o.granted = n.granted /\ o.transferee = n.transferee /\ o.log = n.log
      /\ o.self = n.self /\ o.steps = n.steps /\ o.outbox = n.outbox
      /\ o.prog = [n.prog EXCEPT ![j] = pr] /\ n.prog \in [Node -> Progress]
      /\ n.term \in Nat
  BY DEF NodeState
<1> HIDE DEF o
<1>2. n.state = "Leader" => NextOK(o)
  BY <1>1 DEF Sane, NextOK, LastIndex
<1>3. \A m : Answers(n, m) => Answers(o, m)
  BY <1>1 DEF Answers
<1>4. Sane(i, o)
  BY <1>1, <1>2, <1>3 DEF Sane
<1>5. Fair(i, n, o)
  BY <1>1 DEF Fair, Follow, Enters, Collects
<1>6. o.prog[j] = pr
  BY <1>1
<1> QED
  BY <1>1, <1>4, <1>5, <1>6 DEF o

\* A rejection that is current moves the next index back, not below match
LEMMA DecrToBounds ==
    ASSUME NEW pr \in Progress, NEW last \in Nat, pr.match < pr.next, pr.next =< last + 1,
           NEW rejected \in Nat, NEW hint \in Nat, RejectionIsCurrent(pr, rejected)
    PROVE  LET d == DecrTo(pr, rejected, hint)
           IN  /\ d \in Progress /\ d.match = pr.match /\ d.match < d.next /\ d.next =< last + 1
<1> DEFINE next == IF pr.state = "Replicate" THEN pr.match + 1
                   ELSE Max({Min({rejected, hint + 1}), pr.match + 1})
           d == DecrTo(pr, rejected, hint)
<1>1. d \in Progress
  BY DecrToType
<1>2. pr.match \in Nat /\ pr.next \in Nat
  BY DEF Progress
<1>3. d.match = pr.match /\ d.next = next
  <2> HIDE DEF next
  <2>1. DecrTo(pr, rejected, hint) =
          [pr EXCEPT !.next = next, !.sentCommit = Min({@, next - 1}),
                     !.paused = IF pr.state = "Replicate" THEN @ ELSE FALSE]
    BY DEF DecrTo, next
  <2> QED
    BY <2>1 DEF Progress
<1>4. pr.match < next /\ next =< last + 1
  <2>1. CASE pr.state = "Replicate"
    BY <1>2, <2>1
  <2>2. CASE pr.state # "Replicate"
    <3>1. pr.next - 1 = rejected
      BY <2>2 DEF RejectionIsCurrent
    <3>2. /\ Min({rejected, hint + 1}) \in Nat /\ Min({rejected, hint + 1}) =< rejected
      BY MinPair
    <3>3. /\ Max({Min({rejected, hint + 1}), pr.match + 1}) \in
               {Min({rejected, hint + 1}), pr.match + 1}
          /\ Max({Min({rejected, hint + 1}), pr.match + 1}) >= pr.match + 1
      BY <1>2, <3>2, MaxPair
    <3> QED
      BY <1>2, <2>2, <3>1, <3>2, <3>3
  <2> QED
    BY <2>1, <2>2
<1> QED
  BY <1>1, <1>3, <1>4

LEMMA BecomeBounds ==
    ASSUME NEW pr \in Progress, NEW last \in Nat, pr.match =< last
    PROVE  /\ LET p == BecomeProbe(pr)
              IN  p \in Progress /\ p.match = pr.match /\ p.match < p.next /\ p.next =< last + 1
           /\ LET p == BecomeReplicate(pr)
              IN  p \in Progress /\ p.match = pr.match /\ p.match < p.next /\ p.next =< last + 1
<1>1. pr.match \in Nat /\ BecomeProbe(pr) \in Progress /\ BecomeReplicate(pr) \in Progress
  BY BecomeProbeType, BecomeReplicateType DEF Progress
<1>2. BecomeProbe(pr).match = pr.match /\ BecomeProbe(pr).next = pr.match + 1
  BY DEF BecomeProbe, Progress
<1>3. BecomeReplicate(pr).match = pr.match /\ BecomeReplicate(pr).next = pr.match + 1
  BY DEF BecomeReplicate, Progress
<1> QED
  BY <1>1, <1>2, <1>3

\* What a leader has noted of a peer
LEMMA LeaderProgress ==
    ASSUME NEW i \in Node, NEW n \in NodeState, Sane(i, n), n.state = "Leader", NEW j \in Node
    PROVE  /\ n.prog[j] \in Progress /\ LastIndex(n) \in Nat
           /\ n.prog[j].match < n.prog[j].next /\ n.prog[j].next =< LastIndex(n) + 1
           /\ n.prog[j].match \in Nat /\ n.prog[j].match =< LastIndex(n)
<1>1. /\ n.prog[j] \in Progress /\ LastIndex(n) \in Nat
      /\ n.prog[j].match \in Nat /\ n.prog[j].next \in Nat
  BY ProgType, LastIndexType
<1>2. n.prog[j].match < n.prog[j].next /\ n.prog[j].next =< LastIndex(n) + 1
  BY DEF Sane, NextOK
<1> QED
  BY <1>1, <1>2

LEMMA StepAppRejectFair ==
    ASSUME NEW i \in Node, NEW n \in NodeState, Sane(i, n), n.state = "Leader",
           NEW m \in AppRespMsg, m.from # i
    PROVE  Sane(i, StepAppReject(i, n, m)) /\ Fair(i, n, StepAppReject(i, n, m))
<1> DEFINE j == m.from
           hint == IF m.logTerm > 0 THEN FindConflictByTerm(n.log, m.rejectHint, m.logTerm)
                   ELSE m.rejectHint
           decr == DecrTo(n.prog[j], m.index, hint)
           probe == IF decr.state = "Replicate" THEN BecomeProbe(decr) ELSE decr
           r == [n EXCEPT !.prog[j] = probe]
<1>1. j \in Node \ {i} /\ m.index \in Nat /\ hint \in Nat
  BY FindConflictType DEF AppRespMsg, NodeState
<1>2. CASE RejectionIsCurrent(n.prog[j], m.index)
  <2>1. StepAppReject(i, n, m) = MaybeSendAppend(i, r, {j}, TRUE)
    BY <1>2 DEF StepAppReject
  <2> HIDE DEF hint
  <2>2. /\ decr \in Progress /\ decr.match < decr.next /\ decr.next =< LastIndex(n) + 1
        /\ LastIndex(n) \in Nat
    BY <1>1, <1>2, LeaderProgress, DecrToBounds
  <2> HIDE DEF decr
  <2>3. probe \in Progress /\ probe.match < probe.next /\ probe.next =< LastIndex(n) + 1
    <3>1. decr.match =< LastIndex(n)
      BY <2>2 DEF Progress
    <3> QED
      BY <2>2, <3>1, BecomeBounds
  <2> HIDE DEF probe
  <2>4. /\ r \in NodeState /\ Sane(i, r) /\ Fair(i, n, r) /\ r.outbox = n.outbox
    BY <1>1, <2>3, SetProgFair, SetProgType
  <2> HIDE DEF r
  <2>5. /\ MaybeSendAppend(i, r, {j}, TRUE) \in NodeState
        /\ Sends(i, r, MaybeSendAppend(i, r, {j}, TRUE))
    BY <1>1, <2>4, MaybeSendAppendType, MaybeSendAppendSends
  <2> QED
    BY <2>1, <2>4, <2>5, FairThenSends
<1>3. CASE ~RejectionIsCurrent(n.prog[j], m.index)
  <2>1. StepAppReject(i, n, m) = n
    BY <1>3 DEF StepAppReject
  <2> QED
    BY <2>1, FairSelf
<1> QED
  BY <1>2, <1>3

\* maybeCommit and what follows from it
LEMMA CommitAndSendSends ==
    ASSUME NEW i \in Node, NEW n \in NodeState, NEW j \in Node
    PROVE  Sends(i, n, CommitAndSend(i, n, j))
<1> DEFINE c == [n EXCEPT !.commit = QuorumIndex(n)]
           sent == CASE CanCommit(n) -> BcastAppend(i, c)
                     [] ~CanCommit(n) /\ j # i /\ CanBumpCommit(n.prog[j], n.commit) ->
                          MaybeSendAppend(i, n, {j}, TRUE)
                     [] OTHER -> n
<1>1. c \in NodeState
  BY QuorumIndexType DEF NodeState
<1>2. Sends(i, n, c)
  BY CommitSends
<1>3. sent \in NodeState /\ Sends(i, n, sent)
  <2> HIDE DEF c
  <2>1. CASE CanCommit(n)
    <3>1. sent = BcastAppend(i, c)
      BY <2>1
    <3>2. sent \in NodeState /\ Sends(i, c, sent)
      BY <1>1, <3>1, BcastAppendType, BcastAppendSends
    <3> QED
      BY <1>1, <1>2, <3>2, SendsTrans
  <2>2. CASE ~CanCommit(n) /\ j # i /\ CanBumpCommit(n.prog[j], n.commit)
    <3>1. sent = MaybeSendAppend(i, n, {j}, TRUE)
      BY <2>2
    <3> QED
      BY <2>2, <3>1, MaybeSendAppendType, MaybeSendAppendSends
  <2>3. CASE ~CanCommit(n) /\ ~(j # i /\ CanBumpCommit(n.prog[j], n.commit))
    <3>1. sent = n
      BY <2>3
    <3> QED
      BY <3>1, SendsSelf
  <2> QED
    BY <2>1, <2>2, <2>3
<1>4. CommitAndSend(i, n, j) = IF j = i THEN sent ELSE SendRest(i, sent, j)
  BY DEF CommitAndSend
<1> HIDE DEF sent
<1>5. CASE j = i
  BY <1>3, <1>4, <1>5
<1>6. CASE j # i
  <2>1. SendRest(i, sent, j) \in NodeState /\ Sends(i, sent, SendRest(i, sent, j))
    BY <1>3, <1>6, SendRestType, SendRestSends
  <2> QED
    BY <1>3, <1>4, <1>6, <2>1, SendsTrans
<1> QED
  BY <1>5, <1>6

LEMMA UpdateBounds ==
    ASSUME NEW pr \in Progress, NEW last \in Nat, pr.match < pr.next, pr.next =< last + 1,
           NEW k \in Nat, k =< last
    PROVE  LET p == MaybeUpdate(pr, k)
           IN  p \in Progress /\ p.match =< last /\ p.match < p.next /\ p.next =< last + 1
<1>1. pr.match \in Nat /\ pr.next \in Nat /\ MaybeUpdate(pr, k) \in Progress
  BY MaybeUpdateType DEF Progress
<1>2. CASE k =< pr.match
  BY <1>1, <1>2 DEF MaybeUpdate
<1>3. CASE ~(k =< pr.match)
  <2> DEFINE next == Max({pr.next, k + 1})
  <2>1. next \in {pr.next, k + 1} /\ next >= k + 1
    BY <1>1, MaxPair
  <2>2. MaybeUpdate(pr, k) = [pr EXCEPT !.match = k, !.next = next, !.paused = FALSE]
    BY <1>3 DEF MaybeUpdate
  <2> HIDE DEF next
  <2>3. MaybeUpdate(pr, k).match = k /\ MaybeUpdate(pr, k).next = next
    BY <2>2 DEF Progress
  <2> QED
    BY <1>1, <2>1, <2>3
<1> QED
  BY <1>2, <1>3

LEMMA TimeoutPolite ==
    ASSUME NEW i \in Node, NEW n \in NodeState, NEW o \in NodeState, NEW j \in Node \ {i},
           o.state = "Leader", o.term = n.term, o.prog[j].match = LastIndex(o)
    PROVE  Sends(i, o, Send(o, {Simple("MsgTimeoutNow", i, n, j)}))
<1> DEFINE m == Simple("MsgTimeoutNow", i, n, j)
<1>1. m.type = "MsgTimeoutNow" /\ m.from = i /\ m.to = j /\ m.term = n.term
  BY DEF Simple
<1>2. m \in Message
  BY DEF Simple, Message, SimpleMsg, NodeState
<1> HIDE DEF m
<1>3. Polite(i, o, m)
  BY <1>1 DEF Polite
<1>4. Sends(i, o, Send(o, {m}))
  BY <1>2, <1>3, SendSends
<1> QED
  BY <1>4 DEF m

\* What is acknowledged is in the log of the leader
LEMMA StepAppAcceptFair ==
    ASSUME NEW i \in Node, NEW n \in NodeState, Sane(i, n), n.state = "Leader",
           NEW m \in AppRespMsg, m.index =< LastIndex(n)
    PROVE  Sane(i, StepAppAccept(i, n, m)) /\ Fair(i, n, StepAppAccept(i, n, m))
<1> DEFINE j == m.from
           pr == n.prog[j]
           upd == MaybeUpdate(pr, m.index)
           useful == m.index > pr.match \/ (m.index = pr.match /\ pr.state = "Probe")
           next == IF upd.state = "Probe" THEN BecomeReplicate(upd) ELSE upd
           r == [n EXCEPT !.prog[j] = next]
           done == CommitAndSend(i, r, j)
           told == Send(done, {Simple("MsgTimeoutNow", i, n, j)})
<1>1. StepAppAccept(i, n, m) =
        IF ~useful THEN n
        ELSE IF j = n.transferee /\ next.match = LastIndex(n) THEN told ELSE done
  BY DEF StepAppAccept
<1>2. j \in Node /\ m.index \in Nat /\ LastIndex(n) \in Nat
  BY LastIndexType DEF AppRespMsg
<1> HIDE DEF useful
<1>3. upd \in Progress /\ upd.match =< LastIndex(n) /\ upd.match < upd.next
      /\ upd.next =< LastIndex(n) + 1
  BY <1>2, LeaderProgress, UpdateBounds
<1> HIDE DEF upd
<1>4. next \in Progress /\ next.match < next.next /\ next.next =< LastIndex(n) + 1
  BY <1>2, <1>3, BecomeBounds
<1> HIDE DEF next
<1>5. /\ r \in NodeState /\ Sane(i, r) /\ Fair(i, n, r) /\ r.outbox = n.outbox
      /\ r.state = n.state /\ r.term = n.term /\ r.log = n.log /\ r.prog[j] = next
  BY <1>2, <1>4, SetProgFair, SetProgType
<1> HIDE DEF r
<1>6. done \in NodeState /\ Sends(i, r, done)
  BY <1>2, <1>5, CommitAndSendType, CommitAndSendSends
<1>7. Sane(i, done) /\ Fair(i, n, done)
  BY <1>5, <1>6, FairThenSends
<1> HIDE DEF done
<1>8. ASSUME j = n.transferee, next.match = LastIndex(n)
      PROVE  Sane(i, told) /\ Fair(i, n, told)
  <2>1. j # i
    BY <1>8 DEF Sane
  <2>2. /\ done.state = "Leader" /\ done.term = n.term
        /\ done.prog[j].match = LastIndex(done)
    BY <1>2, <1>5, <1>6, <1>8 DEF Sends, LastIndex
  <2>3. told \in NodeState
    BY <1>2, <1>6, SendSimpleType
  <2>4. Sends(i, done, told)
    BY <1>2, <1>6, <2>1, <2>2, TimeoutPolite
  <2> HIDE DEF told
  <2>5. Sends(i, r, told)
    BY <1>5, <1>6, <2>3, <2>4, SendsTrans
  <2> QED
    BY <1>5, <2>3, <2>5, FairThenSends
<1> QED
  BY <1>1, <1>7, <1>8, FairSelf

LEMMA StepAppRespFair ==
    ASSUME NEW i \in Node, NEW n \in NodeState, Sane(i, n), NEW m \in AppRespMsg,
           m.reject => m.from # i,
           n.state = "Leader" /\ ~m.reject => m.index =< LastIndex(n)
    PROVE  Sane(i, StepAppResp(i, n, m)) /\ Fair(i, n, StepAppResp(i, n, m))
<1>1. CASE n.state # "Leader"
  BY <1>1, FairSelf DEF StepAppResp
<1>2. CASE n.state = "Leader" /\ m.reject
  BY <1>2, StepAppRejectFair DEF StepAppResp
<1>3. CASE n.state = "Leader" /\ ~m.reject
  BY <1>3, StepAppAcceptFair DEF StepAppResp
<1> QED
  BY <1>1, <1>2, <1>3

LEMMA StepHeartbeatRespFair ==
    ASSUME NEW i \in Node, NEW n \in NodeState, Sane(i, n), n.state = "Leader",
           NEW m \in Message, m.from # i
    PROVE  Sane(i, StepHeartbeatResp(i, n, m)) /\ Fair(i, n, StepHeartbeatResp(i, n, m))
<1> DEFINE j == m.from
           pr == [n.prog[j] EXCEPT !.paused = FALSE]
           r == [n EXCEPT !.prog[j] = pr]
<1>1. j \in Node \ {i}
  BY MessageEnds
<1>2. pr \in Progress /\ pr.match < pr.next /\ pr.next =< LastIndex(n) + 1
  <2>1. pr \in Progress /\ pr.match = n.prog[j].match /\ pr.next = n.prog[j].next
    BY <1>1, ProgType, UnpausedType
  <2> QED
    BY <1>1, <2>1, LeaderProgress
<1>3. StepHeartbeatResp(i, n, m) \in {r, MaybeSendAppend(i, r, {j}, TRUE)}
  BY DEF StepHeartbeatResp
<1> HIDE DEF pr
<1>4. r \in NodeState /\ Sane(i, r) /\ Fair(i, n, r) /\ r.outbox = n.outbox
  BY <1>1, <1>2, SetProgFair, SetProgType
<1> HIDE DEF r
<1>5. /\ MaybeSendAppend(i, r, {j}, TRUE) \in NodeState
      /\ Sends(i, r, MaybeSendAppend(i, r, {j}, TRUE))
  BY <1>1, <1>4, MaybeSendAppendType, MaybeSendAppendSends
<1> QED
  BY <1>3, <1>4, <1>5, FairThenSends

-----------------------------------------------------------------------------
(***************************************************************************)
(* Transfers, proposals, and changes of role.                              *)
(***************************************************************************)

\* Some fields that nothing above depends on
LEMMA SetTransfereeFair ==
    ASSUME NEW i \in Node, NEW n \in NodeState, Sane(i, n), NEW to \in Node \cup {None}, to # i
    PROVE  LET o == [n EXCEPT !.transferee = to]
           IN  /\ o \in NodeState /\ Sane(i, o) /\ Fair(i, n, o) /\ o.outbox = n.outbox
               /\ o.state = n.state /\ o.term = n.term /\ o.log = n.log /\ o.prog = n.prog
<1> DEFINE o == [n EXCEPT !.transferee = to]
<1>1. /\ o.lead = n.lead /\ o.term = n.term /\ o.state = n.state /\ o.vote = n.vote
      /\ o.granted = n.granted /\ o.transferee = to /\ o.log = n.log
      /\ o.self = n.self /\ o.steps = n.steps /\ o.outbox = n.outbox
      /\ o.prog = n.prog /\ n.term \in Nat
  BY DEF NodeState
<1>2. o \in NodeState
  BY DEF NodeState
<1> HIDE DEF o
<1>3. Sane(i, o)
  BY <1>1 DEF Sane, Answers, NextOK, LastIndex
<1>4. Fair(i, n, o)
  BY <1>1 DEF Fair, Follow, Enters, Collects
<1> QED
  BY <1>1, <1>2, <1>3, <1>4 DEF o

LEMMA ForgetFair ==
    ASSUME NEW i \in Node, NEW n \in NodeState, Sane(i, n), n.state # "Leader"
    PROVE  Sane(i, [n EXCEPT !.lead = None]) /\ Fair(i, n, [n EXCEPT !.lead = None])
<1> DEFINE o == [n EXCEPT !.lead = None]
<1>1. /\ o.lead = None /\ o.term = n.term /\ o.state = n.state /\ o.vote = n.vote
      /\ o.granted = n.granted /\ o.transferee = n.transferee
      /\ o.self = n.self /\ o.steps = n.steps /\ o.outbox = n.outbox /\ n.term \in Nat
  BY DEF NodeState
<1>2. None # i
  BY NodeAssumption
<1> HIDE DEF o
<1>3. Sane(i, o)
  BY <1>1, <1>2 DEF Sane, Answers
<1>4. Fair(i, n, o)
  BY <1>1 DEF Fair, Follow, Enters, Collects
<1> QED
  BY <1>3, <1>4 DEF o

LEMMA StepTransferLeaderFair ==
    ASSUME NEW i \in Node, NEW n \in NodeState, Sane(i, n), NEW to \in Node
    PROVE  Sane(i, StepTransferLeader(i, n, to)) /\ Fair(i, n, StepTransferLeader(i, n, to))
<1> DEFINE o == StepTransferLeader(i, n, to)
           r == [n EXCEPT !.transferee = to]
           pass == [type |-> "MsgTransferLeader", from |-> to, to |-> n.lead, term |-> n.term]
<1>1. CASE n.state = "Leader" /\ n.transferee # to /\ to = i
  <2>1. o = [n EXCEPT !.transferee = None] /\ None # i
    BY <1>1, NodeAssumption DEF StepTransferLeader
  <2> QED
    BY <2>1, SetTransfereeFair
<1>2. CASE n.state = "Leader" /\ n.transferee # to /\ to # i
  <2>1. /\ r \in NodeState /\ Sane(i, r) /\ Fair(i, n, r) /\ r.outbox = n.outbox
        /\ r.state = n.state /\ r.term = n.term /\ r.log = n.log /\ r.prog = n.prog
    BY <1>2, SetTransfereeFair
  <2>2. o = IF n.prog[to].match = LastIndex(n)
            THEN Send(r, {Simple("MsgTimeoutNow", i, n, to)})
            ELSE MaybeSendAppend(i, r, {to}, TRUE)
    BY <1>2 DEF StepTransferLeader
  <2> HIDE DEF r, o
  <2>3. CASE n.prog[to].match = LastIndex(n)
    <3>1. r.prog[to].match = LastIndex(r)
      BY <2>1, <2>3 DEF LastIndex
    <3>2. o \in NodeState /\ Sends(i, r, o)
      BY <1>2, <2>1, <2>2, <2>3, <3>1, TimeoutPolite, SendSimpleType
    <3> QED
      BY <2>1, <3>2, FairThenSends DEF o
  <2>4. CASE n.prog[to].match # LastIndex(n)
    <3>1. o \in NodeState /\ Sends(i, r, o)
      BY <1>2, <2>1, <2>2, <2>4, MaybeSendAppendType, MaybeSendAppendSends
    <3> QED
      BY <2>1, <3>1, FairThenSends DEF o
  <2> QED
    BY <2>3, <2>4
<1>3. CASE n.state = "Follower" /\ n.lead # None
  <2>1. o = Send(n, {pass})
    BY <1>3 DEF StepTransferLeader
  <2>2. n.lead \in Node \ {i}
    BY <1>3 DEF NodeState, Sane
  <2>3. pass \in Message
    BY <2>2 DEF Message, SimpleMsg, NodeState
  <2>4. Polite(i, n, pass)
    BY <2>2 DEF Polite
  <2> HIDE DEF pass
  <2>5. o \in NodeState /\ Sends(i, n, o)
    BY <2>1, <2>3, <2>4, SendType, SendSends
  <2> QED
    BY <2>5, SendsFair
<1>4. CASE /\ ~(n.state = "Leader" /\ n.transferee # to)
           /\ ~(n.state = "Follower" /\ n.lead # None)
  <2>1. o = n
    BY <1>4 DEF StepTransferLeader
  <2> QED
    BY <2>1, FairSelf
<1> QED
  BY <1>1, <1>2, <1>3, <1>4

\* An answer to itself that speaks of no later term
LEMMA AnswersAppend ==
    ASSUME NEW n \in NodeState, NEW o, NEW S, NEW s \in Seq(S), NEW m \in S,
           \A k \in 1..Len(s) : Answers(n, s[k]), Answers(o, m), o.term >= n.term,
           o.term \in Nat, \A x \in S : x.term \in Nat
    PROVE  \A k \in 1..Len(Append(s, m)) : Answers(o, Append(s, m)[k])
<1>1. n.term \in Nat
  BY DEF NodeState
<1> SUFFICES ASSUME NEW k \in 1..Len(Append(s, m)) PROVE Answers(o, Append(s, m)[k])
  OBVIOUS
<1>2. CASE k \in 1..Len(s)
  <2>1. Append(s, m)[k] = s[k] /\ s[k] \in S
    BY <1>2
  <2>2. Answers(n, s[k]) /\ s[k].term \in Nat
    BY <1>2, <2>1
  <2>3. Answers(o, s[k])
    BY <1>1, <2>2 DEF Answers
  <2> QED
    BY <2>1, <2>3
<1>3. CASE k = Len(s) + 1
  BY <1>3
<1> QED
  BY <1>2, <1>3

LEMMA AppendEntryFair ==
    ASSUME NEW i \in Node, NEW n \in NodeState, Sane(i, n), NEW val \in Value \cup {Empty}
    PROVE  LET o == AppendEntry(i, n, val)
           IN  Sane(i, o) /\ Fair(i, n, o) /\ o.outbox = n.outbox
<1> DEFINE o == AppendEntry(i, n, val)
           a == [n EXCEPT !.log = Append(@, [term |-> n.term, val |-> val])]
           m == AppResp(i, a, i, LastIndex(a))
<1>1. /\ n.term \in Nat /\ n.log \in Seq(Entry) /\ n.self \in Seq(VoteRespMsg \cup AppRespMsg)
      /\ a \in NodeState /\ a.term = n.term
  <2>1. [term |-> n.term, val |-> val] \in Entry /\ n.log \in Seq(Entry)
    BY DEF NodeState, Entry
  <2>2. Append(n.log, [term |-> n.term, val |-> val]) \in Seq(Entry)
    BY <2>1
  <2>3. a.term = n.term
    BY DEF NodeState
  <2>4. a \in NodeState
    BY <2>2 DEF NodeState
  <2> QED
    BY <2>1, <2>3, <2>4 DEF NodeState
<1>2. m \in AppRespMsg /\ m.type = "MsgAppResp" /\ ~m.reject /\ m.term = n.term
  BY <1>1, AppRespType, LastIndexType DEF AppResp
<1>3. /\ o.lead = n.lead /\ o.term = n.term /\ o.state = n.state /\ o.vote = n.vote
      /\ o.granted = n.granted /\ o.transferee = n.transferee
      /\ o.log = Append(n.log, [term |-> n.term, val |-> val])
      /\ o.self = Append(n.self, m) /\ o.steps = n.steps /\ o.outbox = n.outbox
      /\ o.prog = n.prog
  BY DEF AppendEntry, SendSelf, NodeState
<1> HIDE DEF o, m, a
<1>4. Answers(o, m)
  BY <1>1, <1>2, <1>3 DEF Answers
<1>5. \A k \in 1..Len(o.self) : Answers(o, o.self[k])
  <2>1. \A k \in 1..Len(n.self) : Answers(n, n.self[k])
    BY DEF Sane
  <2>2. \A x \in VoteRespMsg \cup AppRespMsg : x.term \in Nat
    BY DEF VoteRespMsg, AppRespMsg
  <2>3. o.term >= n.term /\ o.term \in Nat
    BY <1>1, <1>3
  <2> QED
    BY <1>1, <1>2, <1>3, <1>4, <2>1, <2>2, <2>3, AnswersAppend
<1>6. \A k \in 1..Len(o.steps) : Answers(o, o.steps[k])
  BY <1>3 DEF Sane, Answers
<1>7. LastIndex(o) = LastIndex(n) + 1 /\ LastIndex(n) \in Nat
  BY <1>1, <1>3, LastIndexType DEF LastIndex
<1>8. NextOK(n) => NextOK(o)
  BY <1>3, <1>7, ProgType DEF NextOK
<1>9. Sane(i, o)
  BY <1>3, <1>5, <1>6, <1>8 DEF Sane
<1>10. Fair(i, n, o)
  BY <1>1, <1>3 DEF Fair, Follow, Enters, Collects
<1> QED
  BY <1>3, <1>9, <1>10 DEF o

LEMMA StepPropFair ==
    ASSUME NEW i \in Node, NEW n \in NodeState, Sane(i, n), NEW val \in Value
    PROVE  Sane(i, StepProp(i, n, val)) /\ Fair(i, n, StepProp(i, n, val))
<1> DEFINE o == StepProp(i, n, val)
           a == AppendEntry(i, n, val)
           pass == [type |-> "MsgProp", from |-> i, to |-> n.lead, term |-> 0, val |-> val]
<1>1. CASE n.state = "Leader" /\ n.transferee = None
  <2>1. o = BcastAppend(i, a)
    BY <1>1 DEF StepProp
  <2>2. a \in NodeState /\ Sane(i, a) /\ Fair(i, n, a) /\ a.outbox = n.outbox
    BY AppendEntryFair, AppendEntryType
  <2> HIDE DEF a, o
  <2>3. o \in NodeState /\ Sends(i, a, o)
    BY <2>1, <2>2, BcastAppendType, BcastAppendSends
  <2> QED
    BY <2>2, <2>3, FairThenSends DEF o
<1>2. CASE n.state = "Follower" /\ n.lead # None
  <2>1. o = Send(n, {pass})
    BY <1>2 DEF StepProp
  <2>2. n.lead \in Node \ {i}
    BY <1>2 DEF NodeState, Sane
  <2>3. pass \in Message
    BY <2>2 DEF Message, PropMsg
  <2>4. Polite(i, n, pass)
    BY <2>2 DEF Polite, Raises
  <2> HIDE DEF pass
  <2>5. o \in NodeState /\ Sends(i, n, o)
    BY <2>1, <2>3, <2>4, SendType, SendSends
  <2> QED
    BY <2>5, SendsFair
<1>3. CASE ~(n.state = "Leader" /\ n.transferee = None) /\ ~(n.state = "Follower" /\ n.lead # None)
  <2>1. o = n
    BY <1>3 DEF StepProp
  <2> QED
    BY <2>1, FairSelf
<1> QED
  BY <1>1, <1>2, <1>3

\* becomeFollower of somebody else, in a term that a message has announced
LEMMA BecomeFollowerFair ==
    ASSUME NEW i \in Node, NEW n \in NodeState, Sane(i, n), NEW t \in Nat, t >= n.term,
           NEW lead \in Node \cup {None}, lead # i,
           t = n.term \/ \E m \in msgs : Raises(m) /\ m.term = t,
           lead = None \/ \E m \in msgs : /\ m.type \in {"MsgApp", "MsgHeartbeat"}
                                          /\ m.from = lead /\ m.term = t
    PROVE  LET o == BecomeFollower(i, n, t, lead)
           IN  /\ o \in NodeState /\ Sane(i, o) /\ Fair(i, n, o) /\ o.outbox = n.outbox
               /\ o.state = "Follower" /\ o.term = t
<1> DEFINE o == BecomeFollower(i, n, t, lead)
<1>1. /\ o.lead = lead /\ o.term = t /\ o.state = "Follower"
      /\ o.vote = (IF n.term = t THEN n.vote ELSE None) /\ o.transferee = None
      /\ o.self = n.self /\ o.steps = n.steps /\ o.outbox = n.outbox /\ o.granted = {}
  BY DEF BecomeFollower, Reset, NodeState
<1>2. o \in NodeState /\ n.term \in Nat /\ None # i
  BY BecomeFollowerType, NodeAssumption DEF NodeState
<1> HIDE DEF o
<1>3. \A k \in 1..Len(o.self) : Answers(o, o.self[k])
  <2> SUFFICES ASSUME NEW k \in 1..Len(o.self) PROVE Answers(o, o.self[k])
    OBVIOUS
  <2>1. n.self[k] \in VoteRespMsg \cup AppRespMsg /\ Answers(n, n.self[k])
    BY <1>1 DEF Sane, NodeState
  <2>2. n.self[k].term \in Nat
    BY <2>1 DEF VoteRespMsg, AppRespMsg
  <2> QED
    BY <1>1, <1>2, <2>1, <2>2 DEF Answers
<1>4. \A k \in 1..Len(o.steps) : Answers(o, o.steps[k])
  <2> SUFFICES ASSUME NEW k \in 1..Len(o.steps) PROVE Answers(o, o.steps[k])
    OBVIOUS
  <2>1. n.steps[k] \in VoteRespMsg \cup AppRespMsg /\ Answers(n, n.steps[k])
    BY <1>1 DEF Sane, NodeState
  <2>2. n.steps[k].term \in Nat
    BY <2>1 DEF VoteRespMsg, AppRespMsg
  <2> QED
    BY <1>1, <1>2, <2>1, <2>2 DEF Answers
<1>5. Sane(i, o)
  BY <1>1, <1>2, <1>3, <1>4 DEF Sane
<1>6. Fair(i, n, o)
  BY <1>1 DEF Fair, Follow, Enters, Collects
<1> QED
  BY <1>1, <1>2, <1>5, <1>6 DEF o

\* The first switch of Step
LEMMA AtTermOfFair ==
    ASSUME NEW i \in Node, NEW n \in NodeState, Sane(i, n), NEW m \in Message,
           (m \in msgs /\ m.from # i) \/ (Raises(m) => m.term =< n.term) \/
             (m \in msgs /\ m.type \notin {"MsgApp", "MsgHeartbeat"})
    PROVE  LET a == AtTermOf(i, n, m)
           IN  /\ a \in NodeState /\ Sane(i, a) /\ Fair(i, n, a) /\ a.outbox = n.outbox
               /\ a = n \/ (a.state = "Follower" /\ m.term > n.term /\ a.term = m.term)
<1>1. m.term \in Nat /\ m.from \in Node /\ n.term \in Nat
  BY MessageFields DEF NodeState
<1>2. ASSUME ~(m.term =< n.term) PROVE m.type # "MsgProp"
  <2>1. m.type = "MsgProp" => m.term = 0
    BY MessageFields DEF PropMsg
  <2> QED
    BY <1>1, <1>2, <2>1
<1> DEFINE lead == IF m.type \in {"MsgApp", "MsgHeartbeat"} THEN m.from ELSE None
<1>3. CASE /\ ~(m.term =< n.term) /\ m.type # "MsgPreVote"
           /\ ~(m.type = "MsgPreVoteResp" /\ ~m.reject)
  <2>1. AtTermOf(i, n, m) = BecomeFollower(i, n, m.term, lead)
    BY <1>3 DEF AtTermOf
  <2>2. Raises(m)
    BY <1>2, <1>3 DEF Raises
  <2>3. lead \in Node \cup {None} /\ lead # i /\ m \in msgs
    BY <1>1, <1>3, <2>2, NodeAssumption
  <2>4. m.term >= n.term /\ m.term > n.term
    BY <1>1, <1>3
  <2>5. lead = None \/ \E x \in msgs : /\ x.type \in {"MsgApp", "MsgHeartbeat"}
                                       /\ x.from = lead /\ x.term = m.term
    BY <2>3
  <2> HIDE DEF lead
  <2> QED
    BY <1>1, <2>1, <2>2, <2>3, <2>4, <2>5, BecomeFollowerFair
<1>4. CASE ~(/\ ~(m.term =< n.term) /\ m.type # "MsgPreVote"
             /\ ~(m.type = "MsgPreVoteResp" /\ ~m.reject))
  <2>1. AtTermOf(i, n, m) = n
    BY <1>4 DEF AtTermOf
  <2> QED
    BY <2>1, FairSelf
<1> QED
  BY <1>3, <1>4

\* Who is no leader may change its log, its commit index, and what is no vote of its own
LEMMA TalkFair ==
    ASSUME NEW i \in Node, NEW n \in NodeState, Sane(i, n), NEW o \in NodeState,
           o.lead = n.lead, o.term = n.term, o.state = n.state, o.granted = n.granted,
           o.transferee = n.transferee, o.self = n.self, o.steps = n.steps,
           n.vote # None => o.vote # None,
           n.outbox \subseteq o.outbox, \A m \in o.outbox \ n.outbox : Polite(i, o, m),
           n.state = "Leader" => o.log = n.log /\ o.prog = n.prog
    PROVE  Sane(i, o) /\ Fair(i, n, o)
<1>1. n.term \in Nat
  BY DEF NodeState
<1>2. n.state = "Leader" => NextOK(o)
  BY DEF Sane, NextOK, LastIndex
<1>3. Sane(i, o)
  BY <1>2 DEF Sane, Answers
<1>4. Fair(i, n, o)
  BY <1>1 DEF Fair, Follow, Enters, Collects
<1> QED
  BY <1>3, <1>4

\* What is no announcement of a leader, a node may say in its own term
LEMMA AnswerPolite ==
    ASSUME NEW i \in Node, NEW o, NEW m, m.to # i, m.from = i,
           m.type \notin {"MsgTransferLeader", "MsgHeartbeat", "MsgTimeoutNow"},
           Raises(m) => m.term = o.term
    PROVE  Polite(i, o, m)
  BY DEF Polite

LEMMA StepLowerTermFair ==
    ASSUME NEW i \in Node, NEW n \in NodeState, Sane(i, n), NEW m \in Message, m.from # i
    PROVE  Sane(i, StepLowerTerm(i, n, m)) /\ Fair(i, n, StepLowerTerm(i, n, m))
<1>1. m.from \in Node /\ n.term \in Nat
  BY MessageFields DEF NodeState
<1>2. ASSUME NEW x \in Message, x.to # i, x.from = i, x.term = n.term,
             x.type \in {"MsgAppResp", "MsgPreVoteResp"}
      PROVE  Sane(i, Send(n, {x})) /\ Fair(i, n, Send(n, {x}))
  <2>1. Polite(i, n, x)
    BY <1>2, AnswerPolite
  <2>2. Send(n, {x}) \in NodeState /\ Sends(i, n, Send(n, {x}))
    BY <2>1, SendType, SendSends
  <2> QED
    BY <2>2, SendsFair
<1> DEFINE x == AppResp(i, n, m.from, 0)
           y == VoteResp("MsgPreVoteResp", i, m.from, n.term, TRUE)
<1>3. x \in Message /\ x.to = m.from /\ x.from = i /\ x.term = n.term /\ x.type = "MsgAppResp"
  <2>1. x \in AppRespMsg
    BY <1>1, AppRespType
  <2> QED
    BY <2>1 DEF AppResp, Message
<1>4. /\ y \in Message /\ y.to = m.from /\ y.from = i /\ y.term = n.term
      /\ y.type = "MsgPreVoteResp"
  <2>1. y \in VoteRespMsg
    BY <1>1, VoteRespType
  <2> QED
    BY <2>1 DEF VoteResp, Message
<1>5. StepLowerTerm(i, n, m) \in {n, Send(n, {x}), Send(n, {y})}
  <2>1. CASE m.type \in {"MsgApp", "MsgHeartbeat"} /\ (CheckQuorum \/ PreVote)
    BY <2>1 DEF StepLowerTerm
  <2>2. CASE m.type = "MsgPreVote"
    BY <2>2 DEF StepLowerTerm
  <2>3. CASE /\ ~(m.type \in {"MsgApp", "MsgHeartbeat"} /\ (CheckQuorum \/ PreVote))
             /\ m.type # "MsgPreVote"
    BY <2>3 DEF StepLowerTerm
  <2> QED
    BY <2>1, <2>2, <2>3
<1> HIDE DEF x, y
<1> QED
  BY <1>2, <1>3, <1>4, <1>5, FairSelf

LEMMA StepVoteFair ==
    ASSUME NEW i \in Node, NEW n \in NodeState, Sane(i, n), NEW m \in Message, m.from # i,
           m.type \in {"MsgVote", "MsgPreVote"}, m.type = "MsgVote" => m.term = n.term
    PROVE  Sane(i, StepVote(i, n, m)) /\ Fair(i, n, StepVote(i, n, m))
<1> DEFINE o == StepVote(i, n, m)
           type == IF m.type = "MsgPreVote" THEN "MsgPreVoteResp" ELSE "MsgVoteResp"
           yes == VoteResp(type, i, m.from, m.term, FALSE)
           no == VoteResp(type, i, m.from, n.term, TRUE)
<1>1. o \in NodeState /\ m.from \in Node /\ m.from # None
  BY StepVoteType, MessageFields, NodeAssumption
<1>2. /\ o.lead = n.lead /\ o.term = n.term /\ o.state = n.state /\ o.granted = n.granted
      /\ o.transferee = n.transferee /\ o.self = n.self /\ o.steps = n.steps
      /\ o.log = n.log /\ o.prog = n.prog /\ o.vote \in {n.vote, m.from}
      /\ o.outbox \in {n.outbox \cup {yes}, n.outbox \cup {no}}
  BY DEF StepVote, Send, NodeState
<1> HIDE DEF o
<1>3. Polite(i, o, yes)
  <2>1. /\ yes.to = m.from /\ yes.from = i /\ yes.type = type /\ ~yes.reject
        /\ yes.term = m.term
    BY DEF VoteResp
  <2> HIDE DEF yes
  <2>2. Raises(yes) => yes.term = o.term
    BY <1>2, <2>1 DEF Raises
  <2>3. yes.type \notin {"MsgTransferLeader", "MsgHeartbeat", "MsgTimeoutNow"}
    BY <2>1
  <2> QED
    BY <2>1, <2>2, <2>3, AnswerPolite
<1>4. Polite(i, o, no)
  <2>1. no.to = m.from /\ no.from = i /\ no.type = type /\ no.term = n.term
    BY DEF VoteResp
  <2> HIDE DEF no
  <2>2. no.type \notin {"MsgTransferLeader", "MsgHeartbeat", "MsgTimeoutNow"}
    BY <2>1
  <2> QED
    BY <1>2, <2>1, <2>2, AnswerPolite
<1> HIDE DEF yes, no
<1>5. \A x \in o.outbox \ n.outbox : Polite(i, o, x)
  BY <1>2, <1>3, <1>4
<1>6. n.outbox \subseteq o.outbox /\ (n.vote # None => o.vote # None)
  BY <1>1, <1>2
<1> QED
  BY <1>1, <1>2, <1>5, <1>6, TalkFair DEF o

\* A leader that has spoken in the term is followed
LEMMA FollowSenderFair ==
    ASSUME NEW i \in Node, NEW n \in NodeState, Sane(i, n), n.state # "Leader",
           NEW m \in Message, m \in msgs, m.from # i, m.term = n.term,
           m.type \in {"MsgApp", "MsgHeartbeat"}
    PROVE  LET a == FollowSender(i, n, m)
           IN  /\ a \in NodeState /\ Sane(i, a) /\ Fair(i, n, a) /\ a.outbox = n.outbox
               /\ a.state = "Follower" /\ a.term = n.term
<1>1. m.from \in Node /\ n.term \in Nat
  BY MessageFields DEF NodeState
<1>2. \E x \in msgs : /\ x.type \in {"MsgApp", "MsgHeartbeat"}
                      /\ x.from = m.from /\ x.term = n.term
  OBVIOUS
<1>3. CASE n.state = "Follower"
  <2> DEFINE a == [n EXCEPT !.lead = m.from]
  <2>1. FollowSender(i, n, m) = a
    BY <1>3 DEF FollowSender
  <2>2. /\ a.lead = m.from /\ a.term = n.term /\ a.state = n.state /\ a.vote = n.vote
        /\ a.granted = n.granted /\ a.transferee = n.transferee
        /\ a.self = n.self /\ a.steps = n.steps /\ a.outbox = n.outbox
    BY DEF NodeState
  <2>3. a \in NodeState
    BY <1>1 DEF NodeState
  <2> HIDE DEF a
  <2>4. Sane(i, a)
    BY <2>2 DEF Sane, Answers
  <2>5. Fair(i, n, a)
    <3>1. Follow(i, n, a)
      BY <1>2, <2>2 DEF Follow
    <3> QED
      BY <1>1, <1>3, <2>2, <3>1 DEF Fair, Enters, Collects
  <2> QED
    BY <1>3, <2>1, <2>2, <2>3, <2>4, <2>5
<1>4. CASE n.state # "Follower"
  <2>1. FollowSender(i, n, m) = BecomeFollower(i, n, n.term, m.from)
    BY <1>4 DEF FollowSender
  <2>2. n.term >= n.term
    BY <1>1
  <2> QED
    BY <1>1, <1>2, <2>1, <2>2, BecomeFollowerFair
<1> QED
  BY <1>3, <1>4

LEMMA HandleAppendEntriesFair ==
    ASSUME NEW i \in Node, NEW n \in NodeState, Sane(i, n), n.state # "Leader",
           NEW m \in AppMsg, m.from # i
    PROVE  Sane(i, HandleAppendEntries(i, n, m)) /\ Fair(i, n, HandleAppendEntries(i, n, m))
<1> DEFINE o == HandleAppendEntries(i, n, m)
           hint == FindConflictByTerm(n.log, Min({m.index, LastIndex(n)}), m.logTerm)
           a == AppResp(i, n, m.from, n.commit)
           b == AppResp(i, n, m.from, m.index + Len(m.entries))
           c == AppReject(i, n, m.from, m.index, hint, TermAt(n.log, hint))
<1>1. o \in NodeState /\ m.index \in Nat /\ n.commit \in Nat
  BY HandleAppendEntriesType DEF AppMsg, NodeState
<1>2. /\ o.lead = n.lead /\ o.term = n.term /\ o.state = n.state /\ o.granted = n.granted
      /\ o.transferee = n.transferee /\ o.self = n.self /\ o.steps = n.steps
      /\ o.vote = n.vote
      /\ o.outbox \in {n.outbox \cup {a}, n.outbox \cup {b}, n.outbox \cup {c}}
  <2> HIDE DEF a, b, c
  <2>1. CASE m.index < n.commit
    <3>1. o = Send(n, {a})
      BY <1>1, <2>1 DEF HandleAppendEntries, a
    <3> QED
      BY <3>1 DEF Send, NodeState
  <2>2. CASE ~(m.index < n.commit) /\ m.index >= n.commit /\ MatchTerm(n.log, m.index, m.logTerm)
    <3>1. o = Send(CommitTo([n EXCEPT !.log = AppendAfter(@, m.index, m.entries)],
                            Min({m.commit, m.index + Len(m.entries)})), {b})
      BY <2>2 DEF HandleAppendEntries, b
    <3> QED
      BY <3>1 DEF Send, CommitTo, NodeState
  <2>3. CASE ~(m.index < n.commit) /\ ~(m.index >= n.commit /\ MatchTerm(n.log, m.index, m.logTerm))
    <3>1. o = Send(n, {c})
      BY <2>3 DEF HandleAppendEntries, c
    <3> QED
      BY <3>1 DEF Send, NodeState
  <2> QED
    BY <2>1, <2>2, <2>3
<1> HIDE DEF o
<1>3. \A x \in {a, b, c} : /\ x.to = m.from /\ x.from = i /\ x.term = n.term
                           /\ x.type = "MsgAppResp"
  BY DEF AppResp, AppReject
<1> HIDE DEF a, b, c
<1>4. \A x \in {a, b, c} : Polite(i, o, x)
  BY <1>2, <1>3, AnswerPolite
<1>5. \A x \in o.outbox \ n.outbox : Polite(i, o, x)
  BY <1>2, <1>4
<1>6. n.outbox \subseteq o.outbox
  BY <1>2
<1> QED
  BY <1>1, <1>2, <1>5, <1>6, TalkFair DEF o

LEMMA StepAppFair ==
    ASSUME NEW i \in Node, NEW n \in NodeState, Sane(i, n), NEW m \in Message, m \in msgs,
           m.from # i, m.type = "MsgApp", m.term = n.term
    PROVE  Sane(i, StepApp(i, n, m)) /\ Fair(i, n, StepApp(i, n, m))
<1> DEFINE a == FollowSender(i, n, m)
<1>1. CASE n.state = "Leader"
  BY <1>1, FairSelf DEF StepApp
<1>2. CASE n.state # "Leader"
  <2>1. StepApp(i, n, m) = HandleAppendEntries(i, a, m) /\ m \in AppMsg
    BY <1>2, MessageFields DEF StepApp
  <2>2. /\ a \in NodeState /\ Sane(i, a) /\ Fair(i, n, a) /\ a.outbox = n.outbox
        /\ a.state # "Leader"
    BY <1>2, FollowSenderFair
  <2> HIDE DEF a
  <2>3. HandleAppendEntries(i, a, m) \in NodeState
    BY <2>1, <2>2, HandleAppendEntriesType
  <2>4. Sane(i, HandleAppendEntries(i, a, m)) /\ Fair(i, a, HandleAppendEntries(i, a, m))
    BY <2>1, <2>2, HandleAppendEntriesFair
  <2> QED
    BY <2>1, <2>2, <2>3, <2>4, FairTrans
<1> QED
  BY <1>1, <1>2

LEMMA StepHeartbeatFair ==
    ASSUME NEW i \in Node, NEW n \in NodeState, Sane(i, n), NEW m \in Message, m \in msgs,
           m.from # i, m.type = "MsgHeartbeat", m.term = n.term
    PROVE  Sane(i, StepHeartbeat(i, n, m)) /\ Fair(i, n, StepHeartbeat(i, n, m))
<1> DEFINE a == FollowSender(i, n, m)
           c == CommitTo(a, m.commit)
           x == HeartbeatResp(i, n, m)
<1>1. CASE n.state = "Leader"
  BY <1>1, FairSelf DEF StepHeartbeat
<1>2. CASE n.state # "Leader"
  <2>1. StepHeartbeat(i, n, m) = Send(c, {x}) /\ m.commit \in Nat /\ m.from \in Node
        /\ m.ctx \in Nat
    BY <1>2, MessageFields DEF StepHeartbeat, HeartbeatMsg
  <2>2. /\ a \in NodeState /\ Sane(i, a) /\ Fair(i, n, a) /\ a.outbox = n.outbox
        /\ a.state = "Follower" /\ a.term = n.term
    BY <1>2, FollowSenderFair
  <2> HIDE DEF a
  <2>3. c \in NodeState /\ Sends(i, a, c)
    <3>1. c \in NodeState
      BY <2>1, <2>2, CommitToType
    <3>2. c = [a EXCEPT !.commit = Max({a.commit, m.commit})]
      BY DEF CommitTo
    <3> HIDE DEF c
    <3> QED
      BY <2>2, <3>1, <3>2, CommitSends
  <2>4. c.term = n.term
    BY <2>2, <2>3 DEF Sends
  <2> HIDE DEF c
  <2>5. /\ x.to = m.from /\ x.from = i /\ x.term = n.term /\ x.type = "MsgHeartbeatResp"
        /\ x \in Message
    BY <2>1 DEF HeartbeatResp, Message, HeartbeatRespMsg, NodeState
  <2> HIDE DEF x
  <2>6. Polite(i, c, x)
    BY <2>4, <2>5, AnswerPolite
  <2>7. Send(c, {x}) \in NodeState /\ Sends(i, c, Send(c, {x}))
    BY <2>3, <2>5, <2>6, SendType, SendSends
  <2>8. Sends(i, a, Send(c, {x}))
    BY <2>2, <2>3, <2>7, SendsTrans
  <2> QED
    BY <2>1, <2>2, <2>7, <2>8, FairThenSends
<1> QED
  BY <1>1, <1>2

-----------------------------------------------------------------------------
(***************************************************************************)
(* Campaigns.                                                              *)
(***************************************************************************)

\* A campaign asks everybody else, and answers itself
Asks(i, n, o, t, type, answer) ==
    /\ o.lead = n.lead /\ o.term = n.term /\ o.state = n.state /\ o.vote = n.vote
    /\ o.granted = n.granted /\ o.transferee = n.transferee /\ o.steps = n.steps
    /\ o.self = Append(n.self, VoteResp(answer, i, i, t, FALSE))
    /\ n.outbox \subseteq o.outbox
    /\ \A m \in o.outbox \ n.outbox : m.from = i /\ m.to # i /\ m.type = type /\ m.term = t
    /\ \A j \in Node \ {i} : \E m \in o.outbox : m.type = type /\ m.term = t

LEMMA CampaignFields ==
    ASSUME NEW i \in Node, NEW n \in NodeState
    PROVE  /\ Asks(i, n, SendCampaign(i, n, TRUE), n.term + 1, "MsgPreVote", "MsgPreVoteResp")
           /\ Asks(i, n, SendCampaign(i, n, FALSE), n.term, "MsgVote", "MsgVoteResp")
<1> DEFINE ask(type, t, j) == [type |-> type, from |-> i, to |-> j, term |-> t,
                               index |-> LastIndex(n), logTerm |-> LastTerm(n)]
           asked(type, t, answer) == SendSelf(Send(n, {ask(type, t, j) : j \in Node \ {i}}),
                                              VoteResp(answer, i, i, t, FALSE))
<1>1. ASSUME NEW t, NEW type, NEW answer
      PROVE  Asks(i, n, asked(type, t, answer), t, type, answer)
  <2> DEFINE o == asked(type, t, answer)
  <2>1. /\ o.lead = n.lead /\ o.term = n.term /\ o.state = n.state /\ o.vote = n.vote
        /\ o.granted = n.granted /\ o.transferee = n.transferee /\ o.steps = n.steps
        /\ o.self = Append(n.self, VoteResp(answer, i, i, t, FALSE))
        /\ o.outbox = n.outbox \cup {ask(type, t, j) : j \in Node \ {i}}
    BY DEF SendSelf, Send, NodeState
  <2>2. \A j \in Node \ {i} : /\ ask(type, t, j).from = i /\ ask(type, t, j).to # i
                              /\ ask(type, t, j).type = type /\ ask(type, t, j).term = t
    OBVIOUS
  <2> HIDE DEF asked, ask
  <2> QED
    BY <2>1, <2>2 DEF Asks
<1>2. /\ SendCampaign(i, n, TRUE) = asked("MsgPreVote", n.term + 1, "MsgPreVoteResp")
      /\ SendCampaign(i, n, FALSE) = asked("MsgVote", n.term, "MsgVoteResp")
  BY DEF SendCampaign
<1> HIDE DEF asked
<1> QED
  BY <1>1, <1>2

\* A pre-campaign changes no term, and forgets what was counted
LEMMA PreCampaignFair ==
    ASSUME NEW i \in Node, NEW n \in NodeState, Sane(i, n), PreVote
    PROVE  Sane(i, Campaign(i, n, TRUE)) /\ Fair(i, n, Campaign(i, n, TRUE))
<1> DEFINE p == BecomePreCandidate(n)
           o == Campaign(i, n, TRUE)
           m == VoteResp("MsgPreVoteResp", i, i, p.term + 1, FALSE)
<1>1. /\ p.lead = None /\ p.term = n.term /\ p.state = "PreCandidate" /\ p.vote = n.vote
      /\ p.granted = {} /\ p.transferee = n.transferee
      /\ p.self = n.self /\ p.steps = n.steps /\ p.outbox = n.outbox
  BY DEF BecomePreCandidate, NodeState
<1>2. p \in NodeState /\ o = SendCampaign(i, p, TRUE)
  BY BecomePreCandidateType DEF Campaign
<1>3. n.term \in Nat /\ None # i /\ n.self \in Seq(VoteRespMsg \cup AppRespMsg)
  BY NodeAssumption DEF NodeState
<1> HIDE DEF p, o
<1>4. /\ o.lead = p.lead /\ o.term = p.term /\ o.state = p.state /\ o.vote = p.vote
      /\ o.granted = p.granted /\ o.transferee = p.transferee /\ o.steps = p.steps
      /\ o.self = Append(p.self, m) /\ p.outbox \subseteq o.outbox
      /\ \A x \in o.outbox \ p.outbox : x.from = i /\ x.to # i /\ x.type = "MsgPreVote"
  <2>1. Asks(i, p, SendCampaign(i, p, TRUE), p.term + 1, "MsgPreVote", "MsgPreVoteResp")
    BY <1>2, CampaignFields, Zenon
  <2>2. Asks(i, p, o, p.term + 1, "MsgPreVote", "MsgPreVoteResp")
    BY <1>2, <2>1, Zenon
  <2> QED
    BY <2>2, Zenon DEF Asks, m
<1>5. m \in VoteRespMsg /\ Answers(o, m)
  <2>1. p.term + 1 \in Nat
    BY <1>1, <1>3
  <2>2. m \in VoteRespMsg
    BY <2>1, VoteRespType
  <2>3. m.type = "MsgPreVoteResp" /\ ~m.reject
    BY DEF VoteResp
  <2> QED
    BY <2>2, <2>3 DEF Answers, Raises
<1> HIDE DEF m
<1>6. \A k \in 1..Len(o.self) : Answers(o, o.self[k])
  <2>1. \A k \in 1..Len(n.self) : Answers(n, n.self[k])
    BY DEF Sane
  <2>2. \A x \in VoteRespMsg \cup AppRespMsg : x.term \in Nat
    BY DEF VoteRespMsg, AppRespMsg
  <2>3. o.term >= n.term /\ o.term \in Nat
    BY <1>1, <1>3, <1>4
  <2> QED
    BY <1>1, <1>3, <1>4, <1>5, <2>1, <2>2, <2>3, AnswersAppend
<1>7. \A k \in 1..Len(o.steps) : Answers(o, o.steps[k])
  BY <1>1, <1>4 DEF Sane, Answers
<1>8. Sane(i, o)
  BY <1>1, <1>3, <1>4, <1>6, <1>7 DEF Sane
<1>9. \A x \in o.outbox \ n.outbox : Polite(i, o, x)
  BY <1>1, <1>4, AnswerPolite DEF Raises
<1>10. Fair(i, n, o)
  BY <1>1, <1>3, <1>4, <1>9 DEF Fair, Follow, Enters, Collects
<1> QED
  BY <1>8, <1>10 DEF o

\* A campaign enters a new term, which it announces
LEMMA CampaignFair ==
    ASSUME NEW i \in Node, NEW n \in NodeState, Sane(i, n)
    PROVE  Sane(i, Campaign(i, n, FALSE)) /\ Fair(i, n, Campaign(i, n, FALSE))
<1> DEFINE p == BecomeCandidate(i, n)
           o == Campaign(i, n, FALSE)
           m == VoteResp("MsgVoteResp", i, i, p.term, FALSE)
<1>1. /\ p.lead = None /\ p.term = n.term + 1 /\ p.state = "Candidate" /\ p.vote = i
      /\ p.transferee = None
      /\ p.self = n.self /\ p.steps = n.steps /\ p.outbox = n.outbox
  BY DEF BecomeCandidate, Reset, NodeState
<1>2. p \in NodeState /\ o = SendCampaign(i, p, FALSE)
  BY BecomeCandidateType DEF Campaign
<1>3. n.term \in Nat /\ None # i /\ n.self \in Seq(VoteRespMsg \cup AppRespMsg)
      /\ n.steps \in Seq(VoteRespMsg \cup AppRespMsg)
  BY NodeAssumption DEF NodeState
<1> HIDE DEF p, o
<1>4. /\ o.lead = p.lead /\ o.term = p.term /\ o.state = p.state /\ o.vote = p.vote
      /\ o.granted = p.granted /\ o.transferee = p.transferee /\ o.steps = p.steps
      /\ o.self = Append(p.self, m) /\ p.outbox \subseteq o.outbox
      /\ \A x \in o.outbox \ p.outbox :
            x.from = i /\ x.to # i /\ x.type = "MsgVote" /\ x.term = p.term
      /\ \A j \in Node \ {i} : \E x \in o.outbox : x.type = "MsgVote" /\ x.term = p.term
  <2>1. Asks(i, p, SendCampaign(i, p, FALSE), p.term, "MsgVote", "MsgVoteResp")
    BY <1>2, CampaignFields, Zenon
  <2>2. Asks(i, p, o, p.term, "MsgVote", "MsgVoteResp")
    BY <1>2, <2>1, Zenon
  <2> QED
    BY <2>2, Zenon DEF Asks, m
<1>5. m \in VoteRespMsg /\ Answers(o, m)
  <2>1. p.term \in Nat
    BY <1>1, <1>3
  <2>2. m \in VoteRespMsg
    BY <2>1, VoteRespType
  <2>3. m.type = "MsgVoteResp" /\ m.term = p.term
    BY DEF VoteResp
  <2> HIDE DEF m
  <2> QED
    BY <1>4, <2>1, <2>2, <2>3 DEF Answers
<1> HIDE DEF m
<1>6. \A k \in 1..Len(o.self) : Answers(o, o.self[k])
  <2>1. \A k \in 1..Len(n.self) : Answers(n, n.self[k])
    BY DEF Sane
  <2>2. \A x \in VoteRespMsg \cup AppRespMsg : x.term \in Nat
    BY DEF VoteRespMsg, AppRespMsg
  <2>3. o.term >= n.term /\ o.term \in Nat
    BY <1>1, <1>3, <1>4
  <2> QED
    BY <1>1, <1>3, <1>4, <1>5, <2>1, <2>2, <2>3, AnswersAppend
<1>7. \A k \in 1..Len(o.steps) : Answers(o, o.steps[k])
  <2> SUFFICES ASSUME NEW k \in 1..Len(o.steps) PROVE Answers(o, o.steps[k])
    OBVIOUS
  <2>1. n.steps[k] \in VoteRespMsg \cup AppRespMsg /\ Answers(n, n.steps[k])
    BY <1>1, <1>3, <1>4 DEF Sane
  <2>2. n.steps[k].term \in Nat
    BY <2>1 DEF VoteRespMsg, AppRespMsg
  <2> QED
    BY <1>1, <1>3, <1>4, <2>1, <2>2 DEF Answers
<1>8. Sane(i, o)
  BY <1>1, <1>3, <1>4, <1>6, <1>7 DEF Sane
<1>9. \A x \in o.outbox \ n.outbox : Polite(i, o, x)
  BY <1>1, <1>4, AnswerPolite
<1>10. Enters(i, n, o)
  BY <1>1, <1>3, <1>4 DEF Enters
<1>11. Fair(i, n, o)
  BY <1>1, <1>3, <1>4, <1>9, <1>10 DEF Fair, Follow, Collects
<1> QED
  BY <1>8, <1>11 DEF o

\* A candidate that wins writes an entry and sends it
LEMMA WinFair ==
    ASSUME NEW i \in Node, NEW n \in NodeState, Sane(i, n)
    PROVE  LET o == BcastAppend(i, BecomeLeader(i, n))
           IN  Sane(i, o) /\ Fair(i, n, o)
<1> DEFINE r == Reset(i, n, n.term)
           a == [r EXCEPT !.lead = i, !.state = "Leader", !.prog[i] = BecomeReplicate(@)]
           b == AppendEntry(i, a, Empty)
<1>1. BecomeLeader(i, n) = b
  BY DEF BecomeLeader
<1>2. n.term \in Nat /\ LastIndex(n) \in Nat /\ n.self \in Seq(VoteRespMsg \cup AppRespMsg)
  BY LastIndexType DEF NodeState
<1>3. r \in NodeState
  BY <1>2, ResetType
<1>4. /\ r.term = n.term /\ r.vote = n.vote /\ r.log = n.log /\ r.transferee = None
      /\ r.self = n.self /\ r.steps = n.steps /\ r.outbox = n.outbox
      /\ \A j \in Node : r.prog[j] = ResetProgress(IF j = i THEN LastIndex(n) ELSE 0, LastIndex(n))
  BY DEF Reset, NodeState
<1> HIDE DEF r
<1>5. /\ a.term = n.term /\ a.vote = n.vote /\ a.log = n.log /\ a.transferee = None
      /\ a.self = n.self /\ a.steps = n.steps /\ a.outbox = n.outbox
      /\ a.lead = i /\ a.state = "Leader"
      /\ a.prog[i] = BecomeReplicate(r.prog[i]) /\ \A j \in Node \ {i} : a.prog[j] = r.prog[j]
  BY <1>3, <1>4 DEF NodeState
<1>6. a \in NodeState
  BY <1>3, ProgType, BecomeReplicateType DEF NodeState
<1> HIDE DEF a
<1>7. NextOK(a)
  <2> SUFFICES ASSUME NEW j \in Node
               PROVE  a.prog[j].match < a.prog[j].next /\ a.prog[j].next =< LastIndex(n) + 1
    BY <1>5 DEF NextOK, LastIndex
  <2>1. CASE j = i
    <3>1. r.prog[i] \in Progress /\ r.prog[i].match = LastIndex(n)
      <4>1. r.prog[i] = ResetProgress(LastIndex(n), LastIndex(n))
        BY <1>4
      <4> QED
        BY <1>3, <4>1, ProgType DEF ResetProgress
    <3>2. r.prog[i].match =< LastIndex(n)
      BY <1>2, <3>1
    <3> QED
      BY <1>2, <1>5, <2>1, <3>1, <3>2, BecomeBounds
  <2>2. CASE j # i
    <3>1. a.prog[j] = ResetProgress(0, LastIndex(n))
      BY <1>4, <1>5, <2>2
    <3> QED
      BY <1>2, <3>1 DEF ResetProgress
  <2> QED
    BY <2>1, <2>2
<1>8. None # i
  BY NodeAssumption
<1>9. Sane(i, a)
  BY <1>5, <1>7, <1>8 DEF Sane, Answers
<1>10. Fair(i, n, a)
  BY <1>2, <1>5 DEF Fair, Follow, Enters, Collects
<1>11. b \in NodeState /\ Sane(i, b) /\ Fair(i, a, b) /\ b.outbox = n.outbox
  BY <1>5, <1>6, <1>9, AppendEntryFair, AppendEntryType
<1> HIDE DEF b
<1>12. Fair(i, n, b)
  BY <1>5, <1>6, <1>10, <1>11, FairTrans
<1>13. BcastAppend(i, b) \in NodeState /\ Sends(i, b, BcastAppend(i, b))
  BY <1>11, BcastAppendType, BcastAppendSends
<1> QED
  BY <1>1, <1>11, <1>12, <1>13, FairThenSends

-----------------------------------------------------------------------------
(***************************************************************************)
(* Answers, to a candidate or to a leader.                                 *)
(***************************************************************************)

\* An answer to a campaign
LEMMA StepVoteRespFair ==
    ASSUME NEW i \in Node, NEW n \in NodeState, Sane(i, n), NEW m \in Message, Polls(n, m),
           n.state = "PreCandidate" /\ ~m.reject => m.from \in Backers(i, n.term)
    PROVE  Sane(i, StepVoteResp(i, n, m)) /\ Fair(i, n, StepVoteResp(i, n, m))
<1> DEFINE polled == IF m.from \in n.granted \cup n.rejected THEN n
                     ELSE IF m.reject THEN [n EXCEPT !.rejected = @ \cup {m.from}]
                     ELSE [n EXCEPT !.granted = @ \cup {m.from}]
           won == polled.granted \in Quorum
           lost == Node \ polled.rejected \notin Quorum
           again == Campaign(i, polled, FALSE)
           leads == BcastAppend(i, BecomeLeader(i, polled))
           gives == BecomeFollower(i, polled, n.term, None)
           o == StepVoteResp(i, n, m)
<1>1. m.from \in Node /\ n.term \in Nat
  BY MessageFields DEF NodeState
<1>2. polled \in NodeState
  BY <1>1 DEF NodeState
<1>3. /\ polled.lead = n.lead /\ polled.term = n.term /\ polled.state = n.state
      /\ polled.vote = n.vote /\ polled.transferee = n.transferee /\ polled.log = n.log
      /\ polled.self = n.self /\ polled.steps = n.steps /\ polled.outbox = n.outbox
      /\ polled.prog = n.prog
  BY DEF NodeState
<1>4. polled.granted = n.granted \/ (~m.reject /\ polled.granted = n.granted \cup {m.from})
  BY DEF NodeState
<1>5. StepVoteResp(i, n, m) =
        CASE won /\ n.state = "PreCandidate" -> again
          [] won /\ n.state = "Candidate"    -> leads
          [] ~won /\ lost                    -> gives
          [] OTHER                           -> polled
  BY DEF StepVoteResp
<1> HIDE DEF polled
<1>6. Sane(i, polled)
  BY <1>3 DEF Sane, Answers, NextOK, LastIndex
<1>7. Fair(i, n, polled)
  <2>1. Collects(i, n, polled)
    BY <1>3, <1>4 DEF Collects
  <2> QED
    BY <1>1, <1>3, <2>1 DEF Fair, Follow, Enters
<1>8. Sane(i, again) /\ Fair(i, n, again)
  <2>1. again \in NodeState /\ Sane(i, again) /\ Fair(i, polled, again)
    BY <1>2, <1>6, CampaignType, CampaignFair
  <2> HIDE DEF again
  <2> QED
    BY <1>2, <1>3, <1>7, <2>1, FairTrans
<1>9. ASSUME n.state = "Candidate"
      PROVE  Sane(i, leads) /\ Fair(i, n, leads)
  <2>1. leads \in NodeState
    BY <1>2, <1>3, <1>9, BecomeLeaderType, BcastAppendType
  <2>2. Sane(i, leads) /\ Fair(i, polled, leads)
    BY <1>2, <1>6, WinFair, Zenon
  <2> HIDE DEF leads
  <2> QED
    BY <1>2, <1>3, <1>7, <2>1, <2>2, FairTrans
<1>10. Sane(i, gives) /\ Fair(i, n, gives)
  <2>1. None # i /\ n.term >= n.term
    BY <1>1, NodeAssumption
  <2>2. gives \in NodeState /\ Sane(i, gives) /\ Fair(i, polled, gives)
    BY <1>1, <1>2, <1>3, <1>6, <2>1, BecomeFollowerFair
  <2> HIDE DEF gives
  <2> QED
    BY <1>2, <1>3, <1>7, <2>2, FairTrans
<1> HIDE DEF again, leads, gives, won, lost, o
<1> QED
  <2>1. o \in {again, gives, polled} \/ (n.state = "Candidate" /\ o = leads)
    BY <1>5 DEF o
  <2>2. Sane(i, o) /\ Fair(i, n, o)
    BY <1>6, <1>7, <1>8, <1>9, <1>10, <2>1
  <2> QED
    BY <2>2 DEF o

\* A response, from a peer or from the node itself
LEMMA StepResponseFair ==
    ASSUME NEW i \in Node, NEW n \in NodeState, Sane(i, n),
           NEW m \in Message, m.type \in {"MsgVoteResp", "MsgPreVoteResp", "MsgAppResp"},
           m.term >= n.term,
           (m \in msgs /\ m.to = i /\ m.from # i) \/ (m.from = i /\ Answers(n, m)),
           n.state = "Leader" /\ m.type = "MsgAppResp" /\ m.term = n.term /\ ~m.reject =>
               m.index =< LastIndex(n)
    PROVE  Sane(i, StepResponse(i, n, m)) /\ Fair(i, n, StepResponse(i, n, m))
<1> DEFINE a == AtTermOf(i, n, m)
           o == StepResponse(i, n, m)
           heard == m \in msgs /\ m.to = i /\ m.from # i
<1>1. n.term \in Nat /\ m.term \in Nat
  BY MessageFields DEF NodeState
<1>2. /\ a \in NodeState /\ Sane(i, a) /\ Fair(i, n, a) /\ a.outbox = n.outbox
      /\ a = n \/ (a.state = "Follower" /\ m.term > n.term /\ a.term = m.term)
  BY AtTermOfFair DEF Answers
<1>3. /\ m.term >= n.term /\ m.type \notin {"MsgPreVote", "MsgPreVoteResp"} =>
            a.term = m.term
  BY <1>1, AtTermOfCalm
<1>4. o = CASE m.type = "MsgAppResp"                    -> StepAppResp(i, a, m)
            [] m.type # "MsgAppResp" /\ Polls(a, m)     -> StepVoteResp(i, a, m)
            [] OTHER                                    -> a
  BY DEF StepResponse
<1> SUFFICES Sane(i, o) /\ Fair(i, n, o)
  OBVIOUS
<1> HIDE DEF a, o
<1>5. CASE m.type = "MsgAppResp"
  <2> DEFINE p == StepAppResp(i, a, m)
  <2>1. m \in AppRespMsg /\ (m.reject => m.from # i)
    BY <1>5, MessageFields DEF Answers
  <2>2. a.state = "Leader" /\ ~m.reject => m.index =< LastIndex(a)
    BY <1>2, <1>3, <1>5
  <2>3. p \in NodeState
    BY <1>2, <2>1, StepAppRespType
  <2>4. Sane(i, p) /\ Fair(i, a, p)
    BY <1>2, <2>1, <2>2, StepAppRespFair
  <2> HIDE DEF p
  <2>5. Fair(i, n, p)
    BY <1>2, <2>3, <2>4, FairTrans
  <2> QED
    BY <1>4, <1>5, <2>4, <2>5 DEF p
<1>6. CASE m.type # "MsgAppResp" /\ Polls(a, m)
  <2> DEFINE p == StepVoteResp(i, a, m)
  <2>1. a.state = "PreCandidate" /\ ~m.reject => m.from \in Backers(i, a.term)
    <3> SUFFICES ASSUME a.state = "PreCandidate", ~m.reject PROVE m.from \in Backers(i, a.term)
      OBVIOUS
    <3>1. a = n /\ m.type = "MsgPreVoteResp" /\ m.from \in Node
      BY <1>2, <1>6, MessageFields DEF Polls
    <3> QED
      BY <3>1 DEF Backers
  <2>2. p \in NodeState
    BY <1>2, <1>6, StepVoteRespType
  <2>3. Sane(i, p) /\ Fair(i, a, p)
    BY <1>2, <1>6, <2>1, StepVoteRespFair
  <2> HIDE DEF p
  <2>4. Fair(i, n, p)
    BY <1>2, <2>2, <2>3, FairTrans
  <2> QED
    BY <1>4, <1>6, <2>3, <2>4 DEF p
<1>7. CASE m.type # "MsgAppResp" /\ ~Polls(a, m)
  BY <1>2, <1>4, <1>7
<1> QED
  BY <1>5, <1>6, <1>7

-----------------------------------------------------------------------------
(***************************************************************************)
(* Calls and deliveries.                                                   *)
(***************************************************************************)

\* A leader is acknowledged no more than it has
AckFits(i, m) ==
    node[i].state = "Leader" /\ m.type = "MsgAppResp" /\ m.term = node[i].term /\ ~m.reject =>
        m.index =< LastIndex(node[i])

\* A message of the network
LEMMA DeliverFair ==
    ASSUME TypeOK, Apart, NEW i \in Node, NEW m \in msgs, m.to = i, AckFits(i, m), Deliver(i, m)
    PROVE  \E o \in NodeState : Become(i, o) /\ Sane(i, o) /\ Fair(i, node[i], o)
<1> DEFINE n == node[i]
           a == AtTermOf(i, n, m)
           Goal == \E o \in NodeState : Become(i, o) /\ Sane(i, o) /\ Fair(i, n, o)
<1>1. /\ m \in Message /\ m.from \in Node /\ m.term \in Nat
      /\ n \in NodeState /\ n.term \in Nat /\ Sane(i, n)
      /\ m.type # "MsgTransferLeader" => m.from # i
  BY MessageFields DEF TypeOK, NodeState, Apart
<1>2. /\ a \in NodeState /\ Sane(i, a) /\ Fair(i, n, a) /\ a.outbox = n.outbox
      /\ m.term >= n.term /\ m.type \notin {"MsgPreVote", "MsgPreVoteResp"} => a.term = m.term
  <2>1. (m \in msgs /\ m.from # i) \/ (m \in msgs /\ m.type \notin {"MsgApp", "MsgHeartbeat"})
    BY <1>1
  <2>2. a \in NodeState /\ Sane(i, a) /\ Fair(i, n, a) /\ a.outbox = n.outbox
    BY <1>1, <2>1, AtTermOfFair
  <2>3. m.term >= n.term /\ m.type \notin {"MsgPreVote", "MsgPreVoteResp"} => a.term = m.term
    BY <1>1, AtTermOfCalm
  <2> QED
    BY <2>2, <2>3
<1>3. ASSUME NEW o \in NodeState, Become(i, o), Sane(i, o), Fair(i, a, o)
      PROVE  Goal
  BY <1>1, <1>2, <1>3, FairTrans
<1>4. ASSUME NEW o \in NodeState, Become(i, o), Sane(i, o), Fair(i, n, o)
      PROVE  Goal
  BY <1>4
<1>5. Fair(i, a, a)
  BY <1>2, FairSelf
<1> SUFFICES Goal
  OBVIOUS
<1> HIDE DEF a, Goal
<1>8. CASE ReceiveLowerTerm(i, m)
  <2> DEFINE o == StepLowerTerm(i, n, m)
  <2>1. Become(i, o)
    BY <1>8 DEF ReceiveLowerTerm
  <2>2. o \in NodeState
    BY <1>1, StepLowerTermType
  <2>3. m.type # "MsgTransferLeader" => Sane(i, o) /\ Fair(i, n, o)
    BY <1>1, StepLowerTermFair
  <2>4. m.type = "MsgTransferLeader" => o = n
    BY DEF StepLowerTerm
  <2> HIDE DEF o
  <2> QED
    BY <1>1, <1>4, <2>1, <2>2, <2>3, <2>4, FairSelf
<1>9. CASE ReceiveVote(i, m)
  <2> DEFINE o == StepVote(i, a, m)
  <2>1. m.type \in {"MsgVote", "MsgPreVote"} /\ m.term >= n.term /\ Become(i, o)
    BY <1>9 DEF ReceiveVote, Receive, a
  <2>2. m.from # i /\ (m.type = "MsgVote" => m.term = a.term)
    BY <1>1, <1>2, <2>1
  <2>3. o \in NodeState
    BY <1>1, <1>2, <2>1, StepVoteType
  <2>4. Sane(i, o) /\ Fair(i, a, o)
    BY <1>1, <1>2, <2>1, <2>2, StepVoteFair
  <2> HIDE DEF o
  <2> QED
    BY <1>3, <2>1, <2>3, <2>4
<1>10. CASE ReceiveResponse(i, m)
  <2> DEFINE o == StepResponse(i, n, m)
  <2>1. /\ m.type \in {"MsgVoteResp", "MsgPreVoteResp", "MsgAppResp"} /\ m.term >= n.term
        /\ Become(i, o)
    BY <1>10 DEF ReceiveResponse, Receive
  <2>2. m.from # i
    BY <1>1, <2>1
  <2>3. o \in NodeState
    BY <1>1, <2>1, StepResponseType
  <2>4. Sane(i, o) /\ Fair(i, n, o)
    BY <1>1, <2>1, <2>2, StepResponseFair DEF AckFits
  <2> HIDE DEF o
  <2> QED
    BY <1>4, <2>1, <2>3, <2>4
<1>11. CASE ReceiveApp(i, m)
  <2> DEFINE o == StepApp(i, a, m)
  <2>1. m.type = "MsgApp" /\ m.term >= n.term /\ Become(i, o)
    BY <1>11 DEF ReceiveApp, Receive, a
  <2>2. m.from # i /\ m.term = a.term
    BY <1>1, <1>2, <2>1
  <2>3. o \in NodeState
    BY <1>1, <1>2, <2>1, StepAppType
  <2>4. Sane(i, o) /\ Fair(i, a, o)
    BY <1>1, <1>2, <2>1, <2>2, StepAppFair
  <2> HIDE DEF o
  <2> QED
    BY <1>3, <2>1, <2>3, <2>4
<1>12. CASE ReceiveHeartbeat(i, m)
  <2> DEFINE o == StepHeartbeat(i, a, m)
  <2>1. m.type = "MsgHeartbeat" /\ m.term >= n.term /\ Become(i, o)
    BY <1>12 DEF ReceiveHeartbeat, Receive, a
  <2>2. m.from # i /\ m.term = a.term
    BY <1>1, <1>2, <2>1
  <2>3. o \in NodeState
    BY <1>1, <1>2, <2>1, StepHeartbeatType
  <2>4. Sane(i, o) /\ Fair(i, a, o)
    BY <1>1, <1>2, <2>1, <2>2, StepHeartbeatFair
  <2> HIDE DEF o
  <2> QED
    BY <1>3, <2>1, <2>3, <2>4
<1>13. CASE ReceiveHeartbeatResp(i, m)
  <2> DEFINE o == StepHeartbeatResp(i, a, m)
  <2>1. m.type = "MsgHeartbeatResp" /\ Become(i, IF a.state = "Leader" THEN o ELSE a)
    BY <1>13 DEF ReceiveHeartbeatResp, Receive, a
  <2>2. a.state = "Leader" => o \in NodeState
    BY <1>1, <1>2, StepHeartbeatRespType
  <2>3. a.state = "Leader" => Sane(i, o) /\ Fair(i, a, o)
    BY <1>1, <1>2, <2>1, StepHeartbeatRespFair
  <2> HIDE DEF o
  <2> QED
    BY <1>2, <1>3, <1>5, <2>1, <2>2, <2>3
<1>14. CASE ReceiveTimeoutNow(i, m)
  <2> DEFINE o == Campaign(i, a, FALSE)
  <2>1. Become(i, IF a.state = "Follower" THEN o ELSE a)
    BY <1>14 DEF ReceiveTimeoutNow, a
  <2>2. o \in NodeState /\ Sane(i, o) /\ Fair(i, a, o)
    BY <1>2, CampaignFair, CampaignType
  <2> HIDE DEF o
  <2> QED
    BY <1>2, <1>3, <1>5, <2>1, <2>2
<1>15. CASE ReceiveTransferLeader(i, m)
  <2> DEFINE o == StepTransferLeader(i, a, m.from)
  <2>1. Become(i, o)
    BY <1>15 DEF ReceiveTransferLeader, a
  <2>2. o \in NodeState /\ Sane(i, o) /\ Fair(i, a, o)
    BY <1>1, <1>2, StepTransferLeaderType, StepTransferLeaderFair
  <2> HIDE DEF o
  <2> QED
    BY <1>3, <2>1, <2>2
<1>16. CASE ReceiveProp(i, m)
  <2> DEFINE o == StepProp(i, n, m.val)
  <2>1. m.val \in Value /\ Become(i, o)
    BY <1>1, <1>16, MessageFields DEF ReceiveProp, PropMsg
  <2>2. o \in NodeState /\ Sane(i, o) /\ Fair(i, n, o)
    BY <1>1, <2>1, StepPropType, StepPropFair
  <2> HIDE DEF o
  <2> QED
    BY <1>4, <2>1, <2>2
<1> QED
  BY <1>8, <1>9, <1>10, <1>11, <1>12, <1>13, <1>14, <1>15, <1>16 DEF Deliver

\* A call of a timer or of the application
LEMMA LocalFair ==
    ASSUME TypeOK, Apart, NEW i \in Node, Local(i)
    PROVE  \E o \in NodeState : Become(i, o) /\ Sane(i, o) /\ Fair(i, node[i], o)
<1> DEFINE n == node[i]
           Goal == \E o \in NodeState : Become(i, o) /\ Sane(i, o) /\ Fair(i, n, o)
<1>1. n \in NodeState /\ n.term \in Nat /\ Sane(i, n) /\ None # i
  BY NodeAssumption DEF TypeOK, NodeState, Apart
<1>2. ASSUME NEW o \in NodeState, Become(i, o), Sane(i, o), Fair(i, n, o)
      PROVE  Goal
  BY <1>2
<1> SUFFICES Goal
  OBVIOUS
<1> HIDE DEF Goal
<1>4. CASE Hup(i)
  <2> DEFINE o == Campaign(i, n, PreVote)
  <2>1. Become(i, o) /\ PreVote \in BOOLEAN
    BY <1>4, OptionAssumption DEF Hup
  <2>2. o \in NodeState
    BY <1>1, <2>1, CampaignType
  <2>3. PreVote = TRUE \/ PreVote = FALSE
    BY <2>1, Zenon
  <2>4. Sane(i, o) /\ Fair(i, n, o)
    <3>1. CASE PreVote = TRUE
      <4>1. Sane(i, Campaign(i, n, TRUE)) /\ Fair(i, n, Campaign(i, n, TRUE))
        BY <1>1, <3>1, PreCampaignFair, Zenon
      <4> QED
        BY <3>1, <4>1, Zenon
    <3>2. CASE PreVote = FALSE
      <4>1. Sane(i, Campaign(i, n, FALSE)) /\ Fair(i, n, Campaign(i, n, FALSE))
        BY <1>1, CampaignFair, Zenon
      <4> QED
        BY <3>2, <4>1, Zenon
    <3> QED
      BY <2>3, <3>1, <3>2, Zenon
  <2> HIDE DEF o
  <2> QED
    BY <1>2, <2>1, <2>2, <2>4
<1>5. CASE Beat(i)
  <2> DEFINE o == BcastHeartbeat(i, n, {0})
  <2>1. Become(i, o) /\ n.state = "Leader"
    BY <1>5 DEF Beat
  <2>2. o \in NodeState /\ Sends(i, n, o)
    BY <1>1, <2>1, BcastHeartbeatType, BcastHeartbeatSends
  <2> HIDE DEF o
  <2> QED
    BY <1>1, <1>2, <2>1, <2>2, SendsFair
<1>6. CASE CheckQuorumFails(i)
  <2> DEFINE o == BecomeFollower(i, n, n.term, None)
  <2>1. Become(i, o)
    BY <1>6 DEF CheckQuorumFails
  <2>2. n.term >= n.term
    BY <1>1
  <2>3. o \in NodeState /\ Sane(i, o) /\ Fair(i, n, o)
    BY <1>1, <2>2, BecomeFollowerFair
  <2> HIDE DEF o
  <2> QED
    BY <1>2, <2>1, <2>3
<1>7. CASE AbortTransfer(i)
  <2> DEFINE o == [n EXCEPT !.transferee = None]
  <2>1. Become(i, o)
    BY <1>7 DEF AbortTransfer
  <2>2. o \in NodeState /\ Sane(i, o) /\ Fair(i, n, o)
    BY <1>1, SetTransfereeFair
  <2> HIDE DEF o
  <2> QED
    BY <1>2, <2>1, <2>2
<1>8. ASSUME NEW val \in Value, Propose(i, val)
      PROVE  Goal
  BY <1>1, <1>2, <1>8, StepPropType, StepPropFair DEF Propose
<1>9. ASSUME NEW to \in Node, TransferLeader(i, to)
      PROVE  Goal
  BY <1>1, <1>2, <1>9, StepTransferLeaderType, StepTransferLeaderFair DEF TransferLeader
<1>10. CASE ForgetLeader(i)
  <2> DEFINE o == [n EXCEPT !.lead = None]
  <2>1. Become(i, o) /\ n.state # "Leader"
    BY <1>10 DEF ForgetLeader
  <2>2. o \in NodeState /\ Sane(i, o) /\ Fair(i, n, o)
    BY <1>1, <2>1, SetFieldTypes, ForgetFair
  <2> HIDE DEF o
  <2> QED
    BY <1>2, <2>1, <2>2
<1>11. ASSUME NEW j \in Node \ {i}, ReportUnreachable(i, j)
       PROVE  Goal
  <2> DEFINE pr == BecomeProbe(n.prog[j])
             o == [n EXCEPT !.prog[j] = pr]
  <2>1. Become(i, o) /\ n.state = "Leader"
    BY <1>11 DEF ReportUnreachable
  <2>2. /\ n.prog[j] \in Progress /\ LastIndex(n) \in Nat
        /\ n.prog[j].match \in Nat /\ n.prog[j].match =< LastIndex(n)
    BY <1>1, <2>1, LeaderProgress
  <2>3. pr \in Progress /\ pr.match < pr.next /\ pr.next =< LastIndex(n) + 1
    BY <2>2, BecomeBounds
  <2> HIDE DEF pr
  <2>4. o \in NodeState /\ Sane(i, o) /\ Fair(i, n, o)
    BY <1>1, <2>3, SetProgType, SetProgFair
  <2> HIDE DEF o
  <2> QED
    BY <1>2, <2>1, <2>4
<1> QED
  BY <1>4, <1>5, <1>6, <1>7, <1>8, <1>9, <1>10, <1>11 DEF Local

\* A node steps one of its own answers
LEMMA AdvanceFair ==
    ASSUME TypeOK, Apart, NEW i \in Node, OwnAnswers(i, node[i]), Advance(i),
           \A k \in 1..Len(node[i].steps) : AckFits(i, node[i].steps[k])
    PROVE  \E o \in NodeState : Become(i, o) /\ Sane(i, o) /\ Fair(i, node[i], o)
<1> DEFINE m == Head(node[i].steps)
           n == [node[i] EXCEPT !.steps = Tail(@)]
           o == StepResponse(i, n, m)
<1>1. /\ node[i] \in NodeState /\ node[i].steps # <<>> /\ node[i].term \in Nat
      /\ node[i].steps \in Seq(VoteRespMsg \cup AppRespMsg) /\ Sane(i, node[i])
  BY DEF Advance, TypeOK, NodeState, Apart
<1>2. /\ m \in VoteRespMsg \cup AppRespMsg /\ m = node[i].steps[1]
      /\ Tail(node[i].steps) \in Seq(VoteRespMsg \cup AppRespMsg)
      /\ 1 \in 1..Len(node[i].steps)
      /\ \A k \in 1..Len(Tail(node[i].steps)) : /\ k + 1 \in 1..Len(node[i].steps)
                                                /\ Tail(node[i].steps)[k] = node[i].steps[k + 1]
  BY <1>1
<1>3. /\ m \in Message /\ m.type \in {"MsgVoteResp", "MsgPreVoteResp", "MsgAppResp"}
      /\ m.term \in Nat
  BY <1>2 DEF Message, VoteRespMsg, AppRespMsg
<1>4. /\ n \in NodeState /\ n.term = node[i].term /\ n.state = node[i].state /\ n.log = node[i].log
      /\ n.lead = node[i].lead /\ n.vote = node[i].vote /\ n.granted = node[i].granted
      /\ n.transferee = node[i].transferee /\ n.self = node[i].self
      /\ n.outbox = node[i].outbox /\ n.prog = node[i].prog /\ n.steps = Tail(node[i].steps)
  BY <1>1, <1>2 DEF NodeState
<1>5. Become(i, n) \/ (Become(i, o) /\ ~(m.term < n.term))
  BY DEF Advance
<1>6. m.from = i /\ Answers(n, m) /\ AckFits(i, m)
  BY <1>1, <1>2, <1>4 DEF Sane, Answers, OwnAnswers
<1> HIDE DEF m, n
<1>7. Sane(i, n)
  <2>1. \A k \in 1..Len(n.steps) : Answers(n, n.steps[k])
    BY <1>1, <1>2, <1>4 DEF Sane, Answers
  <2> QED
    BY <1>1, <1>4, <2>1 DEF Sane, Answers, NextOK, LastIndex
<1>8. Fair(i, node[i], n)
  BY <1>1, <1>4 DEF Fair, Follow, Enters, Collects
<1>9. CASE Become(i, n)
  BY <1>4, <1>7, <1>8, <1>9
<1>10. CASE Become(i, o) /\ ~(m.term < n.term)
  <2>1. m.term >= n.term
    BY <1>1, <1>3, <1>4, <1>10
  <2>2. o \in NodeState
    BY <1>3, <1>4, <2>1, StepResponseType
  <2>3. n.state = "Leader" /\ m.type = "MsgAppResp" /\ m.term = n.term /\ ~m.reject =>
            m.index =< LastIndex(n)
    BY <1>4, <1>6 DEF AckFits, LastIndex
  <2>4. Sane(i, o) /\ Fair(i, n, o)
    BY <1>3, <1>4, <1>6, <1>7, <2>1, <2>3, StepResponseFair
  <2> HIDE DEF o
  <2>5. Fair(i, node[i], o)
    BY <1>1, <1>4, <1>8, <2>2, <2>4, FairTrans
  <2> QED
    BY <1>10, <2>2, <2>4, <2>5
<1> QED
  BY <1>5, <1>9, <1>10

-----------------------------------------------------------------------------
(***************************************************************************)
(* What the invariant of commits says of leaders and of logs.              *)
(***************************************************************************)

\* A node whose acknowledgements reach the end of the leader's log has stored that log, as
\* long as it is in the term, and has an entry of the term
AreCaughtUp ==
    \A i, j \in Node :
        node[i].state = "Leader" /\ node[i].prog[j].match = LastIndex(node[i]) =>
            /\ disk[j].term >= node[i].term
            /\ disk[j].term = node[i].term =>
                  Has(disk[j].log, node[i].log, Len(node[i].log))
            /\ HasTerm(disk[j], node[i].term) /\ HasTerm(node[j], node[i].term)

LEMMA CommitInvCaughtUp == CommitInv => AreCaughtUp
<1> SUFFICES ASSUME CommitInv, NEW i \in Node, NEW j \in Node, node[i].state = "Leader",
                    node[i].prog[j].match = LastIndex(node[i])
             PROVE  /\ disk[j].term >= node[i].term
                    /\ disk[j].term = node[i].term =>
                          Has(disk[j].log, node[i].log, Len(node[i].log))
                    /\ HasTerm(disk[j], node[i].term) /\ HasTerm(node[j], node[i].term)
  BY DEF AreCaughtUp
<1> DEFINE n == node[i]
           y == Len(n.log)
<1>1. PICK H \in SUBSET Seq(Entry), K \in SUBSET LeaderLog, A \in SUBSET StoredAck :
          Explains(H) /\ History(H, K, A) /\ LeadersCount(K, A)
  BY DEF CommitInv
<1>2. n.term \in Nat /\ y \in Nat /\ n.log \in Seq(Entry) /\ disk[j].term \in Nat
  BY LogTypes DEF CommitInv
<1>3. PICK r \in K : r.term = n.term /\ r.log = n.log
  BY <1>1 DEF LeadersCount, Counts
<1>4. y \in 1..y /\ r.log[y].term = n.term
  BY <1>1, <1>2, <1>3 DEF History, LeadersWrote, Own
<1>5. n.prog[j].match > 0 => <<j, n.term, n.prog[j].match>> \in A
  BY <1>1 DEF LeadersCount, Counts
<1>6. n.prog[j].match = y /\ y > 0
  BY <1>2, <1>4 DEF LastIndex
<1>7. <<j, n.term, y>> \in A
  BY <1>5, <1>6
<1> HIDE DEF y, n
<1>8. /\ n.term =< disk[j].term
      /\ Shows(disk, K, A, disk[j], n.term, y) /\ Shows(disk, K, A, node[j], n.term, y)
  BY <1>1, <1>2, <1>7 DEF History, AcksHold
<1>9. ASSUME NEW s, Shows(disk, K, A, s, n.term, y)
      PROVE  HasTerm(s, n.term)
  <2> SUFFICES ASSUME s.term = n.term PROVE \E k \in 1..Len(s.log) : s.log[k].term = n.term
    BY DEF HasTerm
  <2>1. y =< y /\ y =< Len(r.log)
    BY <1>2, <1>3 DEF y
  <2>2. Has(s.log, r.log, y)
    BY <1>2, <1>3, <1>9, <2>1 DEF Shows
  <2>3. y =< Len(s.log) /\ s.log[y] = r.log[y]
    BY <1>4, <2>2 DEF Has
  <2>4. y \in 1..Len(s.log)
    BY <1>2, <1>4, <2>3
  <2> QED
    BY <1>4, <2>3, <2>4
<1>10. HasTerm(disk[j], n.term) /\ HasTerm(node[j], n.term)
  BY <1>8, <1>9
<1>11. disk[j].term >= n.term
  BY <1>2, <1>8
<1>12. disk[j].term = n.term => Has(disk[j].log, n.log, y)
  <2>1. y =< y /\ y =< Len(r.log)
    BY <1>2, <1>3 DEF y
  <2> QED
    BY <1>2, <1>3, <1>8, <2>1 DEF Shows
<1> QED
  BY <1>10, <1>11, <1>12 DEF n, y

\* What a node is told, a leader has
LEMMA TellsWhatFits ==
    ASSUME CommitInv, NEW i \in Node, NEW m \in Message, Told(i, m)
    PROVE  AckFits(i, m)
<1> DEFINE n == node[i]
<1> SUFFICES ASSUME n.state = "Leader", m.type = "MsgAppResp", m.term = n.term, ~m.reject
             PROVE  m.index =< LastIndex(n)
  BY DEF AckFits
<1>1. PICK H \in SUBSET Seq(Entry), K \in SUBSET LeaderLog, A \in SUBSET StoredAck :
          Explains(H) /\ History(H, K, A) /\ LeadersCount(K, A)
  BY DEF CommitInv
<1>2. n.term \in Nat /\ LastIndex(n) \in Nat
  BY LogTypes DEF CommitInv, LastIndex
<1>3. m.index \in Nat
  <2>1. m \in AppRespMsg
    BY MessageFields
  <2> QED
    BY <2>1 DEF AppRespMsg
<1>4. CASE m.index = 0
  BY <1>2, <1>4
<1>5. CASE m.index > 0
  <2>1. IsAck(m)
    BY <1>5 DEF IsAck
  <2>2. \E j \in Node : <<j, m.term, m.index>> \in A
    <3>1. CASE m \in msgs
      <4>1. <<m.from, m.term, m.index>> \in A
        BY <1>1, <2>1, <3>1 DEF History, AcksHold
      <4>2. m.from \in Node
        BY MessageFields
      <4> QED
        BY <4>1, <4>2
    <3>2. CASE \E k \in 1..Len(node[i].steps) : m = node[i].steps[k]
      BY <1>1, <2>1, <3>2 DEF History, AcksHold
    <3> QED
      BY <3>1, <3>2 DEF Told
  <2>3. LedTo(K, m.term, m.index)
    BY <1>1, <1>2, <1>3, <2>2 DEF History, AcksHold
  <2>4. PICK r \in K : r.term = n.term /\ m.index =< Len(r.log)
    BY <2>3 DEF LedTo
  <2>5. Len(r.log) =< LastIndex(n)
    BY <1>1, <2>4 DEF LeadersCount, Counts, LastIndex
  <2>6. Len(r.log) \in Nat
    BY LeaderLogTypes
  <2> QED
    BY <1>2, <1>3, <2>4, <2>5, <2>6
<1> QED
  BY <1>3, <1>4, <1>5

\* A step within a term keeps an entry of that term
LEMMA TermStays ==
    ASSUME CommitInv, NEW i \in Node, NEW o \in NodeState, CommitStep(i, node[i], o),
           o.term = node[i].term, HasTerm(node[i], node[i].term)
    PROVE  HasTerm(o, o.term)
<1> DEFINE n == node[i]
           t == n.term
<1>1. PICK H \in SUBSET Seq(Entry), K \in SUBSET LeaderLog, A \in SUBSET StoredAck :
          Explains(H) /\ History(H, K, A) /\ LeadersCount(K, A)
  BY DEF CommitInv
<1>2. n.term \in Nat /\ n.log \in Seq(Entry) /\ Len(n.log) \in Nat /\ n.log \in H
  BY <1>1, LogTypes DEF CommitInv, Explains
<1>3. PICK k \in 1..Len(n.log) : n.log[k].term = t
  BY DEF HasTerm
<1>4. ASSUME k \in 1..Len(o.log), o.log[k] = n.log[k]
      PROVE  HasTerm(o, o.term)
  BY <1>3, <1>4 DEF HasTerm
<1>5. CASE o.log = n.log
  BY <1>4, <1>5
<1>6. CASE \E e \in Entry : o.log = Append(n.log, e)
  BY <1>2, <1>4, <1>6
<1>7. ASSUME NEW m \in msgs, m.type = "MsgApp", m.term = o.term,
             MatchTerm(n.log, m.index, m.logTerm), o.log = AppendAfter(n.log, m.index, m.entries)
      PROVE  HasTerm(o, o.term)
  <2>1. m \in AppMsg
    BY <1>7, MessageFields DEF CommitInv, ElectionInv, TypeOK
  <2>2. PICK s \in K : s.term = m.term /\ ShowsPart(m, s.log)
    BY <1>1, <1>7 DEF History, CommitsHold, AllMsgs
  <2>3. PICK r \in K : r.term = n.log[k].term /\ Has(n.log, r.log, k)
    BY <1>1, <1>2 DEF History, LogsWritten
  <2>4. /\ r.log \in Seq(Entry) /\ Len(r.log) \in Nat /\ s.log \in Seq(Entry)
        /\ Len(s.log) \in Nat /\ k \in Nat /\ k =< Len(r.log)
    <3>1. \A x \in K : x.log \in Seq(Entry) /\ Len(x.log) \in Nat
      BY LeaderLogTypes
    <3>2. k \in Nat /\ k =< Len(r.log)
      BY <1>2, <2>3 DEF Has
    <3> QED
      BY <3>1, <3>2
  <2>5. r.term = s.term
    BY <1>3, <1>7, <2>2, <2>3
  <2>6. \A x \in 1..k : x =< Len(s.log) => s.log[x] = r.log[x]
    <3> SUFFICES ASSUME NEW x \in 1..k, x =< Len(s.log) PROVE s.log[x] = r.log[x]
      OBVIOUS
    <3>1. x \in Nat /\ x =< Len(r.log) /\ x \in 1..x
      BY <2>4
    <3>2. Has(s.log, r.log, x)
      BY <1>1, <2>5, <3>1, SameTermHas DEF History
    <3> QED
      BY <3>1, <3>2 DEF Has
  <2>7. Has(AppendAfter(n.log, m.index, m.entries), r.log, k)
    BY <1>2, <1>7, <2>1, <2>2, <2>3, <2>4, <2>6, KeepPrefix DEF ShowsPart
  <2>8. k =< Len(o.log) /\ o.log[k] = r.log[k] /\ n.log[k] = r.log[k]
    BY <1>7, <2>3, <2>7 DEF Has
  <2>9. Len(o.log) \in Nat
    BY DEF NodeState
  <2> QED
    BY <1>4, <2>4, <2>8, <2>9
<1> QED
  BY <1>5, <1>6, <1>7 DEF CommitStep, Speaks, Appends, Takes, Beats

-----------------------------------------------------------------------------
(***************************************************************************)
(* A change of one node keeps the invariant.                               *)
(***************************************************************************)

\* The prime of what the invariant of commits says
LEMMA CaughtUpNext == (CommitInv => AreCaughtUp)'
  BY CommitInvCaughtUp, PTL

LEMMA MoveApart ==
    ASSUME ElectionInv, Apart, NEW i \in Node, NEW o \in NodeState, Become(i, o),
           Sane(i, o), Fair(i, node[i], o)
    PROVE  Apart'
<1>1. /\ disk' = disk /\ msgs' = msgs
      /\ node'[i] = o /\ \A j \in Node \ {i} : node'[j] = node[j]
  BY BecomeFrame
<1>2. ASSUME NEW j \in Node
      PROVE  /\ Sane(j, node'[j])
             /\ \A m \in node'[j].outbox :
                   m.to # j /\ (m.type # "MsgTransferLeader" => m.from = j)
  <2>1. CASE j = i
    <3>1. \A m \in o.outbox \ node[i].outbox : Polite(i, o, m)
      BY DEF Fair
    <3>2. \A m \in o.outbox : m.to # i /\ (m.type # "MsgTransferLeader" => m.from = i)
      BY <3>1 DEF Apart, Polite
    <3> QED
      BY <1>1, <2>1, <3>2
  <2>2. CASE j # i
    BY <1>1, <2>2 DEF Apart
  <2> QED
    BY <2>1, <2>2
<1>3. \A m \in msgs' : m.type # "MsgTransferLeader" => m.from # m.to
  BY <1>1 DEF Apart
<1> QED
  BY <1>2, <1>3 DEF Apart

LEMMA MoveFollowed ==
    ASSUME ElectionInv, ElectionInv', FollowedWereElected,
           NEW i \in Node, NEW o \in NodeState, Become(i, o), Sane(i, o), Fair(i, node[i], o)
    PROVE  FollowedWereElected'
<1>1. /\ disk' = disk /\ msgs' = msgs
      /\ node'[i] = o /\ \A j \in Node \ {i} : node'[j] = node[j]
      /\ \A m \in AllMsgs' : m \in AllMsgs \/ m \in o.outbox \ node[i].outbox
  BY BecomeFrame
<1>2. \A c, t : Supporters(c, t)' = Supporters(c, t)
  BY <1>1 DEF Supporters, Granted
<1>3. o.state = "Leader" => Supporters(i, o.term) \in Quorum
  BY <1>1, <1>2 DEF ElectionInv, LeadersHadQuorum
<1>4. o.lead # None => Supporters(o.lead, o.term) \in Quorum
  <2> SUFFICES ASSUME o.lead # None PROVE Supporters(o.lead, o.term) \in Quorum
    OBVIOUS
  <2>1. CASE o.lead = i
    BY <1>3, <2>1 DEF Sane
  <2>2. CASE o.lead = node[i].lead /\ o.term = node[i].term
    BY <2>2 DEF FollowedWereElected
  <2>3. ASSUME NEW m \in msgs, m.type \in {"MsgApp", "MsgHeartbeat"},
               m.from = o.lead, m.term = o.term
        PROVE  Supporters(o.lead, o.term) \in Quorum
    <3>1. m \in AllMsgs
      BY DEF AllMsgs
    <3> QED
      BY <2>3, <3>1 DEF FollowedWereElected, ElectionInv, LeadersHadQuorum
  <2> QED
    BY <2>1, <2>2, <2>3 DEF Fair, Follow
<1>5. (\A j \in Node :
          node[j].lead # None => Supporters(node[j].lead, node[j].term) \in Quorum)'
  BY <1>1, <1>2, <1>4 DEF FollowedWereElected
<1>6. ASSUME NEW m \in AllMsgs'
      PROVE  /\ m.type = "MsgHeartbeat" => Supporters(m.from, m.term)' \in Quorum
             /\ m.type = "MsgTransferLeader" => Supporters(m.to, m.term)' \in Quorum
  <2>1. CASE m \in AllMsgs
    BY <1>2, <2>1 DEF FollowedWereElected
  <2>2. CASE m \in o.outbox \ node[i].outbox
    <3>1. Polite(i, o, m)
      BY <2>2 DEF Fair
    <3>2. m \in Message /\ m.to \in Node /\ None \notin Node
      BY <2>2, MessageFields, NodeAssumption DEF NodeState
    <3>3. CASE m.type = "MsgHeartbeat"
      <4>1. m.from = i /\ o.state = "Leader" /\ m.term = o.term
        BY <3>1, <3>3 DEF Polite, Raises
      <4> QED
        BY <1>2, <1>3, <3>3, <4>1
    <3>4. CASE m.type = "MsgTransferLeader"
      <4>1. m.to = o.lead /\ m.term = o.term
        BY <3>1, <3>4 DEF Polite, Raises
      <4>2. Supporters(m.to, m.term) \in Quorum
        BY <1>4, <3>2, <4>1
      <4> QED
        BY <1>2, <3>4, <4>2
    <3> QED
      BY <3>3, <3>4
  <2> QED
    BY <1>1, <2>1, <2>2
<1> QED
  BY <1>5, <1>6 DEF FollowedWereElected

\* A term stays rooted
LEMMA RootedMore ==
    ASSUME NEW S, NEW T, NEW t, Rooted(S, t), S \subseteq T
    PROVE  Rooted(T, t)
  BY DEF Rooted

LEMMA MoveRooted ==
    ASSUME ElectionInv, TermsAreRooted,
           NEW i \in Node, NEW o \in NodeState, Become(i, o), Fair(i, node[i], o)
    PROVE  TermsAreRooted'
<1> DEFINE n == node[i]
           S == msgs \cup n.outbox
           T == msgs \cup o.outbox
<1>1. /\ disk' = disk /\ msgs' = msgs
      /\ node'[i] = o /\ \A j \in Node \ {i} : node'[j] = node[j]
  BY BecomeFrame
<1>2. S \subseteq T /\ msgs \subseteq T
  BY DEF Fair
<1>3. \/ o.term = n.term /\ (n.vote # None => o.vote # None)
      \/ /\ o.vote # None
         /\ \A j \in Node \ {i} : \E m \in o.outbox : m.type = "MsgVote" /\ m.term = o.term
      \/ Rooted(msgs, o.term)
  BY DEF Fair, Enters, TermsAreRooted
<1>4. o.vote # None \/ Rooted(msgs, o.term)
  BY <1>3 DEF TermsAreRooted
<1>5. Node = {i} \/ Rooted(T, o.term)
  <2>1. CASE o.term = n.term
    <3>1. Node = {i} \/ Rooted(S, n.term)
      BY DEF TermsAreRooted
    <3> QED
      BY <1>2, <2>1, <3>1, RootedMore
  <2>2. CASE \A j \in Node \ {i} : \E m \in o.outbox : m.type = "MsgVote" /\ m.term = o.term
    BY <2>2 DEF Rooted, Elects
  <2>3. CASE Rooted(msgs, o.term)
    BY <1>2, <2>3, RootedMore
  <2> QED
    BY <1>3, <2>1, <2>2, <2>3
<1>6. ASSUME NEW m \in o.outbox, Raises(m)
      PROVE  Rooted(T, m.term)
  <2>1. CASE m \in n.outbox
    <3>1. Rooted(S, m.term)
      BY <1>6, <2>1 DEF TermsAreRooted
    <3> QED
      BY <1>2, <3>1, RootedMore
  <2>2. CASE m \notin n.outbox
    <3>1. m.to # i /\ m.term = o.term
      BY <1>6, <2>2 DEF Fair, Polite
    <3>2. m.to \in Node
      BY MessageFields DEF NodeState
    <3> QED
      BY <1>5, <3>1, <3>2
  <2> QED
    BY <2>1, <2>2
<1> HIDE DEF S, T
<1>7. ASSUME NEW j \in Node
      PROVE  /\ disk'[j].vote # None \/ Rooted(msgs', disk'[j].term)
             /\ node'[j].vote # None \/ Rooted(msgs', node'[j].term)
             /\ Node = {j} \/ Rooted(msgs', disk'[j].term)
             /\ Node = {j} \/ Rooted(msgs' \cup node'[j].outbox, node'[j].term)
             /\ \A m \in node'[j].outbox :
                   Raises(m) => Rooted(msgs' \cup node'[j].outbox, m.term)
  <2>1. CASE j = i
    BY <1>1, <1>4, <1>5, <1>6, <2>1 DEF T, TermsAreRooted
  <2>2. CASE j # i
    BY <1>1, <2>2 DEF TermsAreRooted
  <2> QED
    BY <2>1, <2>2
<1>8. \A m \in msgs' : Raises(m) => Rooted(msgs', m.term)
  BY <1>1 DEF TermsAreRooted
<1> QED
  BY <1>7, <1>8 DEF TermsAreRooted

LEMMA MoveBacked ==
    ASSUME ElectionInv, BackedByGrants,
           NEW i \in Node, NEW o \in NodeState, Become(i, o), Fair(i, node[i], o)
    PROVE  BackedByGrants'
<1>1. /\ msgs' = msgs /\ node'[i] = o /\ \A j \in Node \ {i} : node'[j] = node[j]
  BY BecomeFrame
<1>2. \A j, t : Backers(j, t)' = Backers(j, t)
  BY <1>1 DEF Backers
<1>3. ASSUME NEW j \in Node, node'[j].state = "PreCandidate"
      PROVE  node'[j].granted \subseteq Backers(j, node'[j].term)
  <2>1. CASE j = i
    <3>1. o.granted \subseteq (IF node[i].state = "PreCandidate" /\ o.term = node[i].term
                                THEN node[i].granted ELSE {}) \cup Backers(i, o.term)
      BY <1>1, <1>3, <2>1 DEF Fair, Collects
    <3> QED
      BY <1>1, <2>1, <3>1 DEF BackedByGrants
  <2>2. CASE j # i
    BY <1>1, <1>3, <2>2 DEF BackedByGrants
  <2> QED
    BY <2>1, <2>2
<1>4. ASSUME NEW j \in Node, node'[j].state = "PreCandidate"
      PROVE  PreVote
  <2>1. CASE j = i
    BY <1>1, <1>4, <2>1 DEF Fair, Collects, BackedByGrants
  <2>2. CASE j # i
    BY <1>1, <1>4, <2>2 DEF BackedByGrants
  <2> QED
    BY <2>1, <2>2
<1> QED
  BY <1>2, <1>3, <1>4 DEF BackedByGrants

LEMMA MoveTransferees ==
    ASSUME CommitInv, CommitInv', TransfereesHaveIt,
           NEW i \in Node, NEW o \in NodeState, Become(i, o),
           CommitStep(i, node[i], o), Fair(i, node[i], o)
    PROVE  TransfereesHaveIt'
<1>1. ElectionInv
  BY DEF CommitInv
<1>2. /\ disk' = disk /\ msgs' = msgs
      /\ node'[i] = o /\ \A j \in Node \ {i} : node'[j] = node[j]
      /\ \A m \in AllMsgs' : m \in AllMsgs \/ m \in o.outbox \ node[i].outbox
  BY <1>1, BecomeFrame
<1>3. AreCaughtUp'
  BY CaughtUpNext
<1> SUFFICES ASSUME NEW m \in AllMsgs', m.type = "MsgTimeoutNow"
             PROVE  /\ disk'[m.to].term >= m.term
                    /\ HasTerm(disk'[m.to], m.term) /\ HasTerm(node'[m.to], m.term)
  BY DEF TransfereesHaveIt
<1>4. CASE m \in AllMsgs
  <2>1. /\ disk[m.to].term >= m.term
        /\ HasTerm(disk[m.to], m.term) /\ HasTerm(node[m.to], m.term)
    BY <1>4 DEF TransfereesHaveIt
  <2>2. m.to \in Node /\ m.term \in Nat
    BY <1>1, <1>4, AllMsgsType, MessageFields
  <2>3. HasTerm(node'[m.to], m.term)
    <3>1. CASE m.to # i
      BY <1>2, <2>1, <2>2, <3>1
    <3>2. CASE m.to = i /\ o.term # m.term
      BY <1>2, <3>2 DEF HasTerm
    <3>3. CASE m.to = i /\ o.term = m.term
      <4>1. /\ disk[i].term >= m.term /\ disk[i].term =< node[i].term /\ o.term >= node[i].term
            /\ disk[i].term \in Nat /\ node[i].term \in Nat
        BY <1>1, <2>1, <3>3, LogTypes DEF Fair
      <4>2. node[i].term = m.term
        BY <2>2, <3>3, <4>1
      <4>3. HasTerm(o, o.term)
        BY <2>1, <3>3, <4>2, TermStays
      <4> QED
        BY <1>2, <3>3, <4>3
    <3> QED
      BY <3>1, <3>2, <3>3
  <2> QED
    BY <1>2, <2>1, <2>3
<1>5. CASE m \in o.outbox \ node[i].outbox
  <2>1. Polite(i, o, m)
    BY <1>5 DEF Fair
  <2>2. o.state = "Leader" /\ o.prog[m.to].match = LastIndex(o) /\ m.term = o.term
    BY <2>1 DEF Polite, Raises
  <2>3. m.to \in Node
    BY <1>5, MessageFields DEF NodeState
  <2>4. node'[i].state = "Leader" /\ node'[i].prog[m.to].match = LastIndex(node'[i])
    BY <1>2, <2>2
  <2>5. /\ disk'[m.to].term >= node'[i].term
        /\ HasTerm(disk'[m.to], node'[i].term) /\ HasTerm(node'[m.to], node'[i].term)
    BY <1>3, <2>3, <2>4 DEF AreCaughtUp
  <2> QED
    BY <1>2, <2>2, <2>5
<1> QED
  BY <1>2, <1>4, <1>5

-----------------------------------------------------------------------------
(***************************************************************************)
(* The invariant holds.                                                    *)
(***************************************************************************)

LEMMA MoveManners ==
    ASSUME CommitInv, CommitInv', Manners, NEW i \in Node,
           \E o \in NodeState : Become(i, o) /\ CommitStep(i, node[i], o),
           \E o \in NodeState : Become(i, o) /\ Sane(i, o) /\ Fair(i, node[i], o)
    PROVE  Manners'
<1>1. ElectionInv /\ ElectionInv'
  BY DEF CommitInv
<1>2. PICK o \in NodeState : Become(i, o) /\ CommitStep(i, node[i], o)
  OBVIOUS
<1>3. PICK p \in NodeState : Become(i, p) /\ Sane(i, p) /\ Fair(i, node[i], p)
  OBVIOUS
<1>4. o = p
  BY <1>1, <1>2, <1>3, BecomeFrame
<1> QED
  BY <1>1, <1>2, <1>3, <1>4, MoveApart, MoveFollowed, MoveRooted, MoveBacked, MoveTransferees
     DEF Manners

\* A Ready sends what waits, and the node answers itself
LEMMA ReadyManners ==
    ASSUME ElectionInv, Manners, NEW i \in Node, Ready(i)
    PROVE  Manners'
<1> DEFINE n == node[i]
           o == node'[i]
<1>1. n \in NodeState /\ node \in [Node -> NodeState] /\ disk \in [Node -> DiskState]
      /\ disk[i].term =< n.term /\ n.term \in Nat /\ disk[i].term \in Nat
  BY LogTypes DEF ElectionInv, TypeOK
<1>2. /\ \A j \in Node \ {i} : node'[j] = node[j] /\ disk'[j] = disk[j]
      /\ disk'[i] = HardState(n) /\ msgs' = msgs \cup n.outbox
  BY <1>1 DEF Ready
<1>3. /\ o.lead = n.lead /\ o.term = n.term /\ o.state = n.state /\ o.vote = n.vote
      /\ o.granted = n.granted /\ o.transferee = n.transferee /\ o.log = n.log
      /\ o.prog = n.prog /\ o.outbox = {} /\ o.self = <<>> /\ o.steps = n.self
  BY <1>1 DEF Ready, NodeState
<1>4. disk'[i].term = n.term /\ disk'[i].log = n.log /\ disk'[i].vote = n.vote
  BY <1>2 DEF HardState
<1> HIDE DEF o, n
<1>5. msgs \subseteq msgs' /\ \A m \in AllMsgs' : m \in AllMsgs
  <2>1. \A j \in Node : node'[j].outbox \subseteq node[j].outbox
    BY <1>2, <1>3 DEF o, n
  <2> QED
    BY <1>2, <2>1 DEF AllMsgs, n
<1>6. Apart'
  <2>1. Sane(i, o)
    BY <1>3 DEF Manners, Apart, Sane, Answers, NextOK, LastIndex, n
  <2>2. \A j \in Node : Sane(j, node'[j])
    BY <1>2, <2>1 DEF Manners, Apart, o
  <2>3. \A j \in Node : \A m \in node'[j].outbox :
            m.to # j /\ (m.type # "MsgTransferLeader" => m.from = j)
    BY <1>2, <1>3 DEF Manners, Apart, o
  <2>4. \A m \in msgs' : m.type # "MsgTransferLeader" => m.from # m.to
    BY <1>2 DEF Manners, Apart, n
  <2> QED
    BY <2>2, <2>3, <2>4 DEF Apart
<1>7. FollowedWereElected'
  <2>1. [Next]_vars
    BY DEF Next
  <2>2. \A c, t : Supporters(c, t) \in Quorum => Supporters(c, t)' \in Quorum
    BY <2>1, SupportGrows
  <2>3. (\A j \in Node :
            node[j].lead # None => Supporters(node[j].lead, node[j].term) \in Quorum)'
    <3>1. \A j \in Node : node'[j].lead = node[j].lead /\ node'[j].term = node[j].term
      BY <1>2, <1>3 DEF o, n
    <3> QED
      BY <2>2, <3>1 DEF Manners, FollowedWereElected
  <2>4. \A m \in AllMsgs' :
            /\ m.type = "MsgHeartbeat" => Supporters(m.from, m.term)' \in Quorum
            /\ m.type = "MsgTransferLeader" => Supporters(m.to, m.term)' \in Quorum
    BY <1>5, <2>2 DEF Manners, FollowedWereElected
  <2> QED
    BY <2>3, <2>4 DEF FollowedWereElected
<1>8. TermsAreRooted'
  <2>1. \A t : Rooted(msgs, t) => Rooted(msgs', t)
    BY <1>5, RootedMore
  <2>2. ASSUME NEW j \in Node \ {i}
        PROVE  \A t : Rooted(msgs \cup node[j].outbox, t) => Rooted(msgs' \cup node'[j].outbox, t)
    <3>1. msgs \cup node[j].outbox \subseteq msgs' \cup node'[j].outbox
      BY <1>2, <1>5
    <3> QED
      BY <3>1, RootedMore
  <2>3. ASSUME NEW j \in Node
        PROVE  /\ disk'[j].vote # None \/ Rooted(msgs', disk'[j].term)
               /\ node'[j].vote # None \/ Rooted(msgs', node'[j].term)
               /\ Node = {j} \/ Rooted(msgs', disk'[j].term)
               /\ Node = {j} \/ Rooted(msgs' \cup node'[j].outbox, node'[j].term)
               /\ \A m \in node'[j].outbox :
                     Raises(m) => Rooted(msgs' \cup node'[j].outbox, m.term)
    <3>1. CASE j = i
      <4>1. n.vote # None \/ Rooted(msgs', n.term)
        BY <2>1 DEF Manners, TermsAreRooted, n
      <4>2. Node = {i} \/ Rooted(msgs', n.term)
        BY <1>2 DEF Manners, TermsAreRooted, n
      <4>3. msgs' \cup o.outbox = msgs'
        BY <1>3
      <4> QED
        BY <1>3, <1>4, <3>1, <4>1, <4>2, <4>3 DEF o
    <3>2. CASE j # i
      BY <1>2, <2>1, <2>2, <3>2 DEF Manners, TermsAreRooted
    <3> QED
      BY <3>1, <3>2
  <2>4. \A m \in msgs' : Raises(m) => Rooted(msgs', m.term)
    BY <1>2, <2>1 DEF Manners, TermsAreRooted, n
  <2> QED
    BY <2>3, <2>4 DEF TermsAreRooted
<1>9. BackedByGrants'
  <2>1. \A j, t : Backers(j, t) \subseteq Backers(j, t)'
    BY <1>5 DEF Backers
  <2>2. \A j \in Node : /\ node'[j].state = node[j].state /\ node'[j].term = node[j].term
                        /\ node'[j].granted = node[j].granted
    BY <1>2, <1>3 DEF o, n
  <2> QED
    BY <2>1, <2>2 DEF Manners, BackedByGrants
<1>10. TransfereesHaveIt'
  <2> SUFFICES ASSUME NEW m \in AllMsgs', m.type = "MsgTimeoutNow"
               PROVE  /\ disk'[m.to].term >= m.term
                      /\ HasTerm(disk'[m.to], m.term) /\ HasTerm(node'[m.to], m.term)
    BY DEF TransfereesHaveIt
  <2>1. m \in AllMsgs
    BY <1>5
  <2>2. m.to \in Node /\ m.term \in Nat
    BY <2>1, AllMsgsType, MessageFields
  <2>3. /\ disk[m.to].term >= m.term
        /\ HasTerm(disk[m.to], m.term) /\ HasTerm(node[m.to], m.term)
    BY <2>1 DEF Manners, TransfereesHaveIt
  <2>4. CASE m.to = i
    <3>1. disk'[i].term >= m.term
      BY <1>1, <1>4, <2>2, <2>3, <2>4 DEF n
    <3>2. HasTerm(n, m.term)
      BY <2>3, <2>4 DEF n
    <3> QED
      BY <1>3, <1>4, <2>4, <3>1, <3>2 DEF HasTerm, o
  <2>5. CASE m.to # i
    BY <1>2, <2>2, <2>3, <2>5
  <2> QED
    BY <2>4, <2>5
<1> QED
  BY <1>6, <1>7, <1>8, <1>9, <1>10 DEF Manners

\* What a node starts with
LEMMA NewRaftSilent ==
    ASSUME NEW i, NEW d, NEW o, o = NewRaft(i, d)
    PROVE  /\ o.lead = None /\ o.term = d.term /\ o.vote = d.vote /\ o.transferee = None
           /\ o.log = d.log /\ o.state = "Follower"
           /\ o.outbox = {} /\ o.self = <<>> /\ o.steps = <<>>
<1> DEFINE n == [term |-> d.term, vote |-> d.vote, lead |-> None, state |-> "Follower",
                 log |-> d.log, commit |-> d.commit, granted |-> {}, rejected |-> {},
                 prog |-> [j \in Node |-> ResetProgress(0, 0)], transferee |-> None,
                 outbox |-> {}, self |-> <<>>, steps |-> <<>>]
           a == BecomeFollower(i, n, d.term, None)
<1>1. /\ n.term = d.term /\ n.vote = d.vote /\ a.lead = None /\ a.transferee = None
      /\ a.term = d.term /\ a.vote = (IF n.term = d.term THEN n.vote ELSE None)
      /\ a.log = d.log /\ a.state = "Follower"
      /\ a.outbox = {} /\ a.self = <<>> /\ a.steps = <<>>
  BY DEF BecomeFollower, Reset
<1>2. o = a
  BY DEF NewRaft
<1> HIDE DEF a, n
<1> QED
  BY <1>1, <1>2

\* A node that starts again follows nobody
LEMMA RestartManners ==
    ASSUME ElectionInv, Manners, NEW i \in Node, Restart(i)
    PROVE  Manners'
<1> DEFINE o == node'[i]
<1>1. node \in [Node -> NodeState] /\ None # i
  BY NodeAssumption DEF ElectionInv, TypeOK
<1>2. /\ \A j \in Node \ {i} : node'[j] = node[j]
      /\ disk' = disk /\ msgs' = msgs /\ o = NewRaft(i, disk[i])
  BY <1>1 DEF Restart
<1>3. /\ o.lead = None /\ o.term = disk[i].term /\ o.vote = disk[i].vote
      /\ o.transferee = None /\ o.log = disk[i].log /\ o.state = "Follower"
      /\ o.outbox = {} /\ o.self = <<>> /\ o.steps = <<>>
  BY <1>2, NewRaftSilent
<1> HIDE DEF o
<1>5. \A m \in AllMsgs' : m \in AllMsgs
  <2>1. \A j \in Node : node'[j].outbox \subseteq node[j].outbox
    BY <1>2, <1>3 DEF o
  <2> QED
    BY <1>2, <2>1 DEF AllMsgs
<1>6. Apart'
  <2>1. Sane(i, o)
    BY <1>1, <1>3 DEF Sane
  <2>2. \A j \in Node : Sane(j, node'[j])
    BY <1>2, <2>1 DEF Manners, Apart, o
  <2> QED
    BY <1>2, <1>3, <2>2 DEF Manners, Apart, o
<1>7. FollowedWereElected'
  <2>1. \A c, t : Supporters(c, t)' = Supporters(c, t)
    BY <1>2 DEF Supporters, Granted
  <2>2. \A j \in Node : \/ node'[j].lead = None
                        \/ node'[j].lead = node[j].lead /\ node'[j].term = node[j].term
    BY <1>2, <1>3 DEF o
  <2>3. (\A j \in Node :
            node[j].lead # None => Supporters(node[j].lead, node[j].term) \in Quorum)'
    BY <2>1, <2>2 DEF Manners, FollowedWereElected
  <2>4. \A m \in AllMsgs' :
            /\ m.type = "MsgHeartbeat" => Supporters(m.from, m.term)' \in Quorum
            /\ m.type = "MsgTransferLeader" => Supporters(m.to, m.term)' \in Quorum
    BY <1>5, <2>1 DEF Manners, FollowedWereElected
  <2> QED
    BY <2>3, <2>4 DEF FollowedWereElected
<1>8. TermsAreRooted'
  <2>1. ASSUME NEW j \in Node
        PROVE  /\ disk'[j].vote # None \/ Rooted(msgs', disk'[j].term)
               /\ node'[j].vote # None \/ Rooted(msgs', node'[j].term)
               /\ Node = {j} \/ Rooted(msgs', disk'[j].term)
               /\ Node = {j} \/ Rooted(msgs' \cup node'[j].outbox, node'[j].term)
               /\ \A m \in node'[j].outbox :
                     Raises(m) => Rooted(msgs' \cup node'[j].outbox, m.term)
    <3>1. CASE j = i
      <4>1. msgs' \cup o.outbox = msgs'
        BY <1>3
      <4> QED
        BY <1>2, <1>3, <3>1, <4>1 DEF Manners, TermsAreRooted, o
    <3>2. CASE j # i
      BY <1>2, <3>2 DEF Manners, TermsAreRooted
    <3> QED
      BY <3>1, <3>2
  <2>2. \A m \in msgs' : Raises(m) => Rooted(msgs', m.term)
    BY <1>2 DEF Manners, TermsAreRooted
  <2> QED
    BY <2>1, <2>2 DEF TermsAreRooted
<1>9. BackedByGrants'
  <2>1. \A j, t : Backers(j, t)' = Backers(j, t)
    BY <1>2 DEF Backers
  <2>2. \A j \in Node : node'[j].state = "PreCandidate" => node'[j] = node[j]
    BY <1>2, <1>3 DEF o
  <2> QED
    BY <2>1, <2>2 DEF Manners, BackedByGrants
<1>10. TransfereesHaveIt'
  <2> SUFFICES ASSUME NEW m \in AllMsgs', m.type = "MsgTimeoutNow"
               PROVE  /\ disk'[m.to].term >= m.term
                      /\ HasTerm(disk'[m.to], m.term) /\ HasTerm(node'[m.to], m.term)
    BY DEF TransfereesHaveIt
  <2>1. m \in AllMsgs
    BY <1>5
  <2>2. m.to \in Node
    BY <2>1, AllMsgsType, MessageFields
  <2>3. /\ disk[m.to].term >= m.term
        /\ HasTerm(disk[m.to], m.term) /\ HasTerm(node[m.to], m.term)
    BY <2>1 DEF Manners, TransfereesHaveIt
  <2>4. m.to = i => HasTerm(o, m.term)
    BY <1>3, <2>3 DEF HasTerm
  <2> QED
    BY <1>2, <2>2, <2>3, <2>4 DEF o
<1> QED
  BY <1>6, <1>7, <1>8, <1>9, <1>10 DEF Manners

\* At first nobody has said anything
LEMMA MannersInit == Init => Manners
<1> SUFFICES ASSUME Init PROVE Manners
  OBVIOUS
<1>1. \A j \in Node : disk[j] = BootDisk /\ node[j] = NewRaft(j, disk[j])
  BY DEF Init
<1>2. \A j \in Node : BootDisk.term = 1 /\ node[j].term = 1 /\ node[j].lead = None
                      /\ node[j].transferee = None /\ node[j].state = "Follower"
                      /\ node[j].outbox = {} /\ node[j].self = <<>> /\ node[j].steps = <<>>
  BY <1>1, NewRaftSilent DEF BootDisk
<1>3. msgs = {} /\ AllMsgs = {}
  BY <1>2 DEF Init, AllMsgs
<1>4. \A S : Rooted(S, 1)
  BY DEF Rooted
<1>5. Apart
  BY <1>2, <1>3, NodeAssumption DEF Apart, Sane
<1>6. FollowedWereElected /\ BackedByGrants /\ TransfereesHaveIt
  BY <1>2, <1>3 DEF FollowedWereElected, BackedByGrants, TransfereesHaveIt
<1>7. TermsAreRooted
  BY <1>1, <1>2, <1>3, <1>4 DEF TermsAreRooted
<1> QED
  BY <1>5, <1>6, <1>7 DEF Manners

\* The invariant is kept by every step
LEMMA SpeechStep == CommitInv /\ Manners /\ [Next]_vars => CommitInv' /\ Manners'
<1> SUFFICES ASSUME CommitInv, Manners, [Next]_vars PROVE CommitInv' /\ Manners'
  OBVIOUS
<1>1. CommitInv' /\ ElectionInv /\ TypeOK /\ Apart
  BY CommitInvStep DEF CommitInv, ElectionInv, Manners
<1>2. CASE UNCHANGED vars
  <2>1. node' = node /\ disk' = disk /\ msgs' = msgs
    BY <1>2 DEF vars
  <2>2. AllMsgs' = AllMsgs /\ \A c, t : Supporters(c, t)' = Supporters(c, t)
    BY <2>1 DEF AllMsgs, Supporters, Granted
  <2>3. \A j, t : Backers(j, t)' = Backers(j, t)
    BY <2>1 DEF Backers
  <2>4. Apart' /\ FollowedWereElected' /\ TermsAreRooted' /\ BackedByGrants' /\ TransfereesHaveIt'
    BY <2>1, <2>2, <2>3
       DEF Manners, Apart, FollowedWereElected, TermsAreRooted, BackedByGrants, TransfereesHaveIt
  <2> QED
    BY <1>1, <2>4 DEF Manners
<1>3. ASSUME NEW i \in Node, Advance(i)
      PROVE  Manners'
  <2>1. OwnAnswers(i, node[i]) /\ node[i].steps \in Seq(VoteRespMsg \cup AppRespMsg)
    BY <1>1 DEF ElectionInv, TypeOK, NodeState
  <2>2. ASSUME NEW k \in 1..Len(node[i].steps)
        PROVE  AckFits(i, node[i].steps[k])
    <3>1. node[i].steps[k] \in Message
      BY <2>1, ElementOfSeq DEF Message
    <3> QED
      BY <3>1, TellsWhatFits DEF Told
  <2>3. \E o \in NodeState : Become(i, o) /\ Sane(i, o) /\ Fair(i, node[i], o)
    BY <1>1, <1>3, <2>1, <2>2, AdvanceFair
  <2>4. \E o \in NodeState : Become(i, o) /\ CommitStep(i, node[i], o)
    BY <1>1, <1>3, AdvanceCommit
  <2> QED
    BY <1>1, <2>3, <2>4, MoveManners
<1>4. ASSUME NEW i \in Node, Local(i)
      PROVE  Manners'
  <2>1. \E o \in NodeState : Become(i, o) /\ Sane(i, o) /\ Fair(i, node[i], o)
    BY <1>1, <1>4, LocalFair
  <2>2. \E o \in NodeState : Become(i, o) /\ CommitStep(i, node[i], o)
    BY <1>1, <1>4, LocalCommit
  <2> QED
    BY <1>1, <2>1, <2>2, MoveManners
<1>5. ASSUME NEW i \in Node, NEW m \in msgs, m.to = i, Deliver(i, m)
      PROVE  Manners'
  <2>1. m \in Message /\ Told(i, m)
    BY <1>1 DEF TypeOK, Told
  <2>2. AckFits(i, m)
    BY <2>1, TellsWhatFits
  <2>3. \E o \in NodeState : Become(i, o) /\ Sane(i, o) /\ Fair(i, node[i], o)
    BY <1>1, <1>5, <2>2, DeliverFair
  <2>4. \E o \in NodeState : Become(i, o) /\ CommitStep(i, node[i], o)
    BY <1>1, <1>5, DeliverCommit
  <2> QED
    BY <1>1, <2>3, <2>4, MoveManners
<1>6. ASSUME NEW i \in Node, Ready(i)
      PROVE  Manners'
  BY <1>1, <1>6, ReadyManners
<1>7. ASSUME NEW i \in Node, Restart(i)
      PROVE  Manners'
  BY <1>1, <1>7, RestartManners
<1> QED
  BY <1>1, <1>2, <1>3, <1>4, <1>5, <1>6, <1>7 DEF Next

\* Nodes speak when they may, and of what they have, in every state that raft reaches
THEOREM SpeechInvariant == Spec => []SpeechInv
<1>1. Init => SpeechInv
  BY CommitInit, MannersInit DEF SpeechInv
<1>2. SpeechInv /\ [Next]_vars => SpeechInv'
  BY SpeechStep DEF SpeechInv
<1> QED
  BY <1>1, <1>2, PTL DEF Spec

-----------------------------------------------------------------------------
(***************************************************************************)
(* What the invariant says of the properties of Raft.                      *)
(***************************************************************************)

LEMMA SpeechInvNoPanic == SpeechInv => NoPanic
<1> SUFFICES ASSUME SpeechInv, NEW i \in Node
             PROVE  /\ node[i].commit \in 0..LastIndex(node[i])
                    /\ disk[i].commit \in 0..Len(disk[i].log)
                    /\ \A m \in node[i].outbox : m.to # i
                    /\ node[i].state = "Leader" =>
                          \A j \in Node : node[i].prog[j].next \in
                                node[i].prog[j].match + 1 .. LastIndex(node[i]) + 1
  BY DEF NoPanic
<1>1. PICK H \in SUBSET Seq(Entry), K \in SUBSET LeaderLog, A \in SUBSET StoredAck :
          Explains(H) /\ History(H, K, A) /\ LeadersCount(K, A)
  BY DEF SpeechInv, CommitInv
<1>2. /\ node[i] \in NodeState /\ node[i].commit \in Nat /\ node[i].log \in Seq(Entry)
      /\ disk[i].commit \in Nat /\ disk[i].log \in Seq(Entry)
  BY DEF SpeechInv, CommitInv, ElectionInv, TypeOK, NodeState, DiskState
<1>3. /\ Done(K, A, node[i].term, node[i].log, node[i].commit)
      /\ Done(K, A, disk[i].term, disk[i].log, disk[i].commit)
  BY <1>1 DEF History, CommitsHold
<1>4. Apart
  BY DEF SpeechInv, Manners
<1>5. /\ node[i].commit \in 0..LastIndex(node[i])
      /\ disk[i].commit \in 0..Len(disk[i].log)
  <2>1. node[i].commit =< Len(node[i].log) /\ disk[i].commit =< Len(disk[i].log)
    BY <1>2, <1>3, DoneInLog
  <2> QED
    BY <1>2, <2>1 DEF LastIndex
<1>6. \A m \in node[i].outbox : m.to # i
  BY <1>4 DEF Apart
<1>7. ASSUME node[i].state = "Leader", NEW j \in Node
      PROVE  node[i].prog[j].next \in node[i].prog[j].match + 1 .. LastIndex(node[i]) + 1
  <2>1. Sane(i, node[i])
    BY <1>4 DEF Apart
  <2>2. /\ node[i].prog[j] \in Progress /\ LastIndex(node[i]) \in Nat
        /\ node[i].prog[j].match < node[i].prog[j].next
        /\ node[i].prog[j].next =< LastIndex(node[i]) + 1
    BY <1>2, <1>7, <2>1, LeaderProgress
  <2>3. node[i].prog[j].next \in Nat /\ node[i].prog[j].match \in Nat
    BY <2>2 DEF Progress
  <2> QED
    BY <2>2, <2>3
<1> QED
  BY <1>5, <1>6, <1>7

LEMMA SpeechInvForwards == SpeechInv => TransferIsForwardedOnce
<1> SUFFICES ASSUME SpeechInv, NEW m \in msgs, m.type = "MsgTransferLeader",
                    node[m.to].state = "Follower", node[m.to].term = m.term,
                    node[m.to].lead # None
             PROVE  FALSE
  BY DEF TransferIsForwardedOnce
<1>1. ElectionInv /\ Apart /\ FollowedWereElected
  BY DEF SpeechInv, CommitInv, Manners
<1>2. m.to \in Node /\ node[m.to].lead \in Node
  BY <1>1, MessageFields DEF ElectionInv, TypeOK, NodeState
<1>3. m \in AllMsgs
  BY DEF AllMsgs
<1>4. Supporters(m.to, m.term) \in Quorum /\ Supporters(node[m.to].lead, m.term) \in Quorum
  BY <1>1, <1>2, <1>3 DEF FollowedWereElected
<1>5. node[m.to].lead = m.to
  BY <1>1, <1>2, <1>4, SupportIsExclusive
<1> QED
  BY <1>1, <1>2, <1>5 DEF Apart, Sane

\* raft never panics: no commit index is past the end of a log, no node sends to itself, and
\* no leader sends what it does not have (commitTo, loadState, send, maybeSendAppend).
THEOREM RaftNeverPanics == Spec => []NoPanic
  BY SpeechInvariant, SpeechInvNoPanic, PTL

\* A transfer request that is passed on reaches the leader of its term or nobody: a follower
\* that gets it follows nobody (the MsgTransferLeader case of stepFollower).
THEOREM TransfersEnd == Spec => []TransferIsForwardedOnce
  BY SpeechInvariant, SpeechInvForwards, PTL

\* Every term that a node is in had a candidate, and the request, the entries or the heartbeat
\* that show it are in the network, or it voted (Step, campaign, becomeCandidate).
THEOREM TermsHaveCandidates == Spec => []TermsComeFromElections
<1>1. SpeechInv => TermsComeFromElections
  BY DEF SpeechInv, Manners, TermsAreRooted, Rooted, Elects, TermsComeFromElections
<1> QED
  BY <1>1, SpeechInvariant, PTL

\* Whom a step of any node tells to take over has acknowledged all that the node then has
LEMMA StepHandsOver ==
    ASSUME SpeechInv, [Next]_vars, NEW i \in Node,
           NEW m \in node'[i].outbox \ node[i].outbox, m.type = "MsgTimeoutNow"
    PROVE  /\ node'[i] \in NodeState /\ disk' = disk /\ m.to \in Node
           /\ node'[i].state = "Leader" /\ node'[i].prog[m.to].match = LastIndex(node'[i])
           /\ m.term = node'[i].term
<1>1. CommitInv /\ ElectionInv /\ Apart /\ TypeOK /\ node \in [Node -> NodeState]
  BY DEF SpeechInv, Manners, CommitInv, ElectionInv, TypeOK
<1>2. ASSUME node'[i] = node[i] \/ node'[i].outbox = {}
      PROVE  FALSE
  BY <1>2
<1>3. ASSUME NEW j \in Node, \E o \in NodeState : Become(j, o) /\ Sane(j, o) /\ Fair(j, node[j], o)
      PROVE  /\ node'[i] \in NodeState /\ disk' = disk /\ m.to \in Node
             /\ node'[i].state = "Leader" /\ node'[i].prog[m.to].match = LastIndex(node'[i])
             /\ m.term = node'[i].term
  <2>1. PICK o \in NodeState : Become(j, o) /\ Sane(j, o) /\ Fair(j, node[j], o)
    BY <1>3
  <2>2. disk' = disk /\ node'[j] = o /\ (i # j => node'[i] = node[i])
    BY <1>1, <2>1, BecomeFrame
  <2>3. j = i
    BY <1>2, <2>2
  <2>4. Polite(i, o, m)
    BY <2>1, <2>2, <2>3 DEF Fair
  <2>5. m.to \in Node
    BY <2>2, <2>3, MessageFields DEF NodeState
  <2> QED
    BY <2>2, <2>3, <2>4, <2>5 DEF Polite, Raises
<1>4. CASE UNCHANGED vars
  BY <1>2, <1>4 DEF vars
<1>5. ASSUME NEW j \in Node, Advance(j)
      PROVE  \E o \in NodeState : Become(j, o) /\ Sane(j, o) /\ Fair(j, node[j], o)
  <2>1. OwnAnswers(j, node[j]) /\ node[j].steps \in Seq(VoteRespMsg \cup AppRespMsg)
    BY <1>1 DEF ElectionInv, TypeOK, NodeState
  <2>2. ASSUME NEW k \in 1..Len(node[j].steps)
        PROVE  AckFits(j, node[j].steps[k])
    <3>1. node[j].steps[k] \in Message
      BY <2>1, ElementOfSeq DEF Message
    <3> QED
      BY <1>1, <3>1, TellsWhatFits DEF Told
  <2> QED
    BY <1>1, <1>5, <2>1, <2>2, AdvanceFair
<1>6. ASSUME NEW j \in Node, Local(j)
      PROVE  \E o \in NodeState : Become(j, o) /\ Sane(j, o) /\ Fair(j, node[j], o)
  BY <1>1, <1>6, LocalFair
<1>7. ASSUME NEW j \in Node, NEW d \in msgs, d.to = j, Deliver(j, d)
      PROVE  \E o \in NodeState : Become(j, o) /\ Sane(j, o) /\ Fair(j, node[j], o)
  <2>1. d \in Message /\ Told(j, d)
    BY <1>1, <1>7 DEF TypeOK, Told
  <2>2. AckFits(j, d)
    BY <1>1, <2>1, TellsWhatFits
  <2> QED
    BY <1>1, <1>7, <2>2, DeliverFair
<1>8. ASSUME NEW j \in Node, Ready(j)
      PROVE  FALSE
  <2>1. node'[i] = node[i] \/ node'[i].outbox = {}
    BY <1>1, <1>8 DEF Ready, NodeState
  <2> QED
    BY <1>2, <2>1
<1>9. ASSUME NEW j \in Node, Restart(j)
      PROVE  FALSE
  <2>1. node'[i] = node[i] \/ node'[i] = NewRaft(i, disk[i])
    BY <1>1, <1>9 DEF Restart
  <2>2. NewRaft(i, disk[i]).outbox = {}
    BY DEF NewRaft, BecomeFollower, Reset
  <2> QED
    BY <1>2, <2>1, <2>2
<1> QED
  BY <1>3, <1>4, <1>5, <1>6, <1>7, <1>8, <1>9 DEF Next

\* Who is told to take over has stored the whole log of the leader that tells it, whatever was
\* proposed in the term and however late it is acknowledged (StepTransferLeader, the
\* MsgAppResp case of stepLeader).
THEOREM TransfereesCaughtUp == Spec => TransfereeHasCaughtUp
<1>1. ASSUME SpeechInv, SpeechInv', [Next]_vars, NEW i \in Node,
             NEW m \in node'[i].outbox \ node[i].outbox, m.type = "MsgTimeoutNow",
             disk[m.to].term =< m.term
      PROVE  IsPrefix(node'[i].log, disk[m.to].log)
  <2> DEFINE a == disk[m.to].log
             b == node'[i].log
  <2>1. /\ node'[i] \in NodeState /\ disk' = disk /\ m.to \in Node
        /\ node'[i].state = "Leader" /\ node'[i].prog[m.to].match = LastIndex(node'[i])
        /\ m.term = node'[i].term
    BY <1>1, StepHandsOver
  <2>2. AreCaughtUp'
    BY <1>1, CaughtUpNext DEF SpeechInv
  <2>3. disk'[m.to].term >= node'[i].term /\
        (disk'[m.to].term = node'[i].term => Has(disk'[m.to].log, b, Len(b)))
    BY <2>1, <2>2 DEF AreCaughtUp
  <2>4. a \in Seq(Entry) /\ disk[m.to].term \in Nat
    BY <1>1, <2>1, LogTypes DEF SpeechInv, CommitInv
  <2>5. b \in Seq(Entry) /\ node'[i].term \in Nat
    BY <2>1 DEF NodeState
  <2>6. Has(a, b, Len(b))
    BY <1>1, <2>1, <2>3, <2>4, <2>5
  <2> HIDE DEF a, b
  <2>7. Len(b) \in Nat /\ SubSeq(b, 1, Len(b)) = b
    BY <2>5
  <2>8. IsPrefix(SubSeq(b, 1, Len(b)), a)
    BY <2>4, <2>5, <2>6, <2>7, HasIsPrefix
  <2> QED
    BY <2>7, <2>8 DEF a, b
<1>2. SpeechInv /\ SpeechInv' /\ [Next]_vars =>
        [\A i \in Node : \A m \in node'[i].outbox \ node[i].outbox :
            m.type = "MsgTimeoutNow" /\ disk[m.to].term <= m.term =>
                IsPrefix(node'[i].log, disk[m.to].log)]_vars
  BY <1>1
<1> QED
  BY <1>2, SpeechInvariant, PTL DEF Spec, TransfereeHasCaughtUp

-----------------------------------------------------------------------------
(***************************************************************************)
(* Who goes on from a pre-campaign to a campaign.                          *)
(***************************************************************************)

\* A pre-candidate that campaigns in the next term has a quorum behind it
Stands(i, n, o) ==
    n.state = "PreCandidate" /\ o.state = "Candidate" /\ o.term = n.term + 1 =>
        Backers(i, n.term) \in Quorum

LEMMA CalmStands ==
    ASSUME NEW i \in Node, NEW n, NEW o, Calm(i, n, o)
    PROVE  Stands(i, n, o)
  BY DEF Calm, Stands

\* The answers that a pre-candidate counts
LEMMA StepVoteRespStands ==
    ASSUME NEW i \in Node, NEW n \in NodeState, NEW m \in Message, Polls(n, m),
           n.state = "PreCandidate" => n.granted \subseteq Backers(i, n.term),
           n.state = "PreCandidate" /\ ~m.reject => m.from \in Backers(i, n.term)
    PROVE  Stands(i, n, StepVoteResp(i, n, m))
<1> DEFINE polled == IF m.from \in n.granted \cup n.rejected THEN n
                     ELSE IF m.reject THEN [n EXCEPT !.rejected = @ \cup {m.from}]
                     ELSE [n EXCEPT !.granted = @ \cup {m.from}]
           won == polled.granted \in Quorum
           lost == Node \ polled.rejected \notin Quorum
           again == Campaign(i, polled, FALSE)
           leads == BcastAppend(i, BecomeLeader(i, polled))
           gives == BecomeFollower(i, polled, n.term, None)
           o == StepVoteResp(i, n, m)
<1>1. polled.state = n.state
  BY DEF NodeState
<1>2. polled.granted = n.granted \/ (~m.reject /\ polled.granted = n.granted \cup {m.from})
  BY DEF NodeState
<1>3. o = CASE won /\ n.state = "PreCandidate" -> again
            [] won /\ n.state = "Candidate"    -> leads
            [] ~won /\ lost                    -> gives
            [] OTHER                           -> polled
  BY DEF StepVoteResp
<1>4. gives.state = "Follower"
  BY DEF BecomeFollower, Reset, NodeState
<1> HIDE DEF polled, o
<1>5. SUFFICES ASSUME n.state = "PreCandidate", o.state = "Candidate"
               PROVE  Backers(i, n.term) \in Quorum
  BY DEF Stands, o
<1>6. won
  <2> HIDE DEF won, lost, again, leads, gives
  <2>1. won \/ o = gives \/ o = polled
    BY <1>3
  <2> QED
    BY <1>1, <1>4, <1>5, <2>1
<1>7. polled.granted \subseteq Backers(i, n.term)
  BY <1>2, <1>5
<1>8. Backers(i, n.term) \in SUBSET Node
  BY DEF Backers
<1> QED
  BY <1>6, <1>7, <1>8, QuorumGrows

LEMMA StepResponseStands ==
    ASSUME NEW i \in Node, NEW n \in NodeState,
           NEW m \in Message, m.type \in {"MsgVoteResp", "MsgPreVoteResp", "MsgAppResp"},
           m.term >= n.term, (m \in msgs /\ m.to = i) \/ m.from = i,
           n.state = "PreCandidate" => n.granted \subseteq Backers(i, n.term)
    PROVE  Stands(i, n, StepResponse(i, n, m))
<1> DEFINE a == AtTermOf(i, n, m)
           o == StepResponse(i, n, m)
<1>1. a \in NodeState /\ Calm(i, n, a) /\ m.term \in Nat /\ n.term \in Nat /\ m.from \in Node
  BY AtTermOfType, AtTermOfCalm, MessageFields DEF NodeState
<1>2. a = n \/ a.state = "Follower"
  BY DEF AtTermOf, BecomeFollower, Reset, NodeState
<1>3. o = CASE m.type = "MsgAppResp"                    -> StepAppResp(i, a, m)
            [] m.type # "MsgAppResp" /\ Polls(a, m)     -> StepVoteResp(i, a, m)
            [] OTHER                                    -> a
  BY DEF StepResponse
<1> SUFFICES Stands(i, n, o)
  OBVIOUS
<1> HIDE DEF a, o
<1>4. CASE m.type = "MsgAppResp"
  <2> DEFINE p == StepAppResp(i, a, m)
  <2>1. m \in AppRespMsg
    BY <1>4, MessageFields
  <2>2. Calm(i, a, p)
    BY <1>1, <2>1, StepAppRespCalm
  <2>3. o = p
    BY <1>3, <1>4
  <2> HIDE DEF p
  <2> QED
    BY <1>1, <2>2, <2>3 DEF Calm, Stands
<1>5. CASE m.type # "MsgAppResp" /\ Polls(a, m)
  <2>1. o = StepVoteResp(i, a, m)
    BY <1>3, <1>5
  <2>2. CASE n.state # "PreCandidate"
    BY <2>2 DEF Stands
  <2>3. CASE n.state = "PreCandidate" /\ a = n
    <3>1. m.type = "MsgPreVoteResp"
      BY <1>5, <2>3 DEF Polls
    <3>2. ~m.reject => m.from \in Backers(i, n.term)
      BY <1>1, <3>1 DEF Backers
    <3> QED
      BY <1>5, <2>1, <2>3, <3>2, StepVoteRespStands
  <2>4. CASE a.state = "Follower"
    BY <1>5, <2>4 DEF Polls
  <2> QED
    BY <1>2, <2>2, <2>3, <2>4
<1>6. CASE m.type # "MsgAppResp" /\ ~Polls(a, m)
  BY <1>1, <1>3, <1>6, CalmStands
<1> QED
  BY <1>4, <1>5, <1>6

\* A message of the network
LEMMA DeliverStands ==
    ASSUME SpeechInv, NEW i \in Node, NEW m \in msgs, m.to = i, Deliver(i, m)
    PROVE  \E o \in NodeState : Become(i, o) /\ Stands(i, node[i], o)
<1> DEFINE n == node[i]
           a == AtTermOf(i, n, m)
           Goal == \E o \in NodeState : Become(i, o) /\ Stands(i, n, o)
<1>1. /\ m \in Message /\ m.from \in Node /\ m.term \in Nat
      /\ n \in NodeState /\ n.term \in Nat
  BY MessageFields DEF SpeechInv, CommitInv, ElectionInv, TypeOK, NodeState
<1>2. n.state = "PreCandidate" => n.granted \subseteq Backers(i, n.term)
  BY DEF SpeechInv, Manners, BackedByGrants
<1>3. /\ a \in NodeState /\ Calm(i, n, a)
      /\ m.term >= n.term /\ m.type \notin {"MsgPreVote", "MsgPreVoteResp"} =>
            a.term = m.term /\ (m.term > n.term => a.state = "Follower")
  BY <1>1, AtTermOfType, AtTermOfCalm
<1>4. a = n \/ (a.state = "Follower" /\ a.term = m.term /\ m.term > n.term)
  BY <1>1 DEF AtTermOf, BecomeFollower, Reset, NodeState
<1>5. ASSUME NEW o \in NodeState, Become(i, o), Calm(i, a, o)
      PROVE  Goal
  BY <1>1, <1>3, <1>5 DEF Calm, Stands
<1>6. ASSUME NEW o \in NodeState, Become(i, o), Stands(i, n, o)
      PROVE  Goal
  BY <1>6
<1>7. Become(i, a) => Goal
  BY <1>3, <1>6, CalmStands
<1> SUFFICES Goal
  OBVIOUS
<1> HIDE DEF a, Goal, n
<1>8. CASE ReceiveLowerTerm(i, m)
  <2>1. Become(i, StepLowerTerm(i, n, m))
    BY <1>8 DEF ReceiveLowerTerm, n
  <2> QED
    BY <1>1, <1>6, <2>1, StepLowerTermType, StepLowerTermCalm, CalmStands
<1>9. CASE ReceiveVote(i, m)
  <2> DEFINE o == StepVote(i, a, m)
  <2>1. m.type \in {"MsgVote", "MsgPreVote"} /\ Become(i, o)
    BY <1>9 DEF ReceiveVote, Receive, a, n
  <2>2. o \in NodeState
    BY <1>1, <1>3, <2>1, StepVoteType
  <2>3. o.state = a.state
    BY <1>3 DEF StepVote, Send, NodeState
  <2> HIDE DEF o
  <2>4. Stands(i, n, o)
    BY <1>3, <2>3 DEF Calm, Stands
  <2> QED
    BY <1>6, <2>1, <2>2, <2>4
<1>10. CASE ReceiveResponse(i, m)
  <2>1. /\ m.type \in {"MsgVoteResp", "MsgPreVoteResp", "MsgAppResp"} /\ m.term >= n.term
        /\ Become(i, StepResponse(i, n, m))
    BY <1>10 DEF ReceiveResponse, Receive, n
  <2>2. /\ StepResponse(i, n, m) \in NodeState
        /\ Stands(i, n, StepResponse(i, n, m))
    BY <1>1, <1>2, <2>1, StepResponseStands, StepResponseType
  <2> QED
    BY <1>6, <2>1, <2>2
<1>11. CASE ReceiveApp(i, m)
  <2>1. m.type = "MsgApp" /\ m.term >= n.term /\ Become(i, StepApp(i, a, m))
    BY <1>11 DEF ReceiveApp, Receive, a, n
  <2>2. StepApp(i, a, m) \in NodeState /\ Calm(i, a, StepApp(i, a, m))
    BY <1>1, <1>3, <2>1, StepAppType, StepAppCalm
  <2> QED
    BY <1>5, <2>1, <2>2
<1>12. CASE ReceiveHeartbeat(i, m)
  <2>1. m.type = "MsgHeartbeat" /\ m.term >= n.term /\ Become(i, StepHeartbeat(i, a, m))
    BY <1>12 DEF ReceiveHeartbeat, Receive, a, n
  <2>2. StepHeartbeat(i, a, m) \in NodeState /\ Calm(i, a, StepHeartbeat(i, a, m))
    BY <1>1, <1>3, <2>1, StepHeartbeatType, StepHeartbeatCalm
  <2> QED
    BY <1>5, <2>1, <2>2
<1>13. CASE ReceiveHeartbeatResp(i, m)
  <2> DEFINE o == StepHeartbeatResp(i, a, m)
  <2>1. Become(i, IF a.state = "Leader" THEN o ELSE a)
    BY <1>13 DEF ReceiveHeartbeatResp, a, n
  <2>2. a.state = "Leader" => o \in NodeState /\ Calm(i, a, o)
    BY <1>1, <1>3, StepHeartbeatRespType, StepHeartbeatRespCalm
  <2> HIDE DEF o
  <2> QED
    BY <1>5, <1>7, <2>1, <2>2
<1>14. CASE ReceiveTimeoutNow(i, m)
  <2> DEFINE o == Campaign(i, a, FALSE)
  <2>1. Become(i, IF a.state = "Follower" THEN o ELSE a)
    BY <1>14 DEF ReceiveTimeoutNow, a, n
  <2>2. o \in NodeState
    BY <1>3, CampaignType
  <2>3. o.term > a.term
    <3>1. /\ Campaign(i, a, FALSE) = SendCampaign(i, BecomeCandidate(i, a), FALSE)
          /\ BecomeCandidate(i, a) \in NodeState
      BY <1>3, BecomeCandidateType DEF Campaign
    <3>2. BecomeCandidate(i, a).term = a.term + 1
      BY <1>3 DEF BecomeCandidate, Reset, NodeState
    <3>3. SendCampaign(i, BecomeCandidate(i, a), FALSE).term = BecomeCandidate(i, a).term
      BY <3>1, SendCampaignKeeps
    <3>4. a.term \in Nat
      BY <1>3 DEF NodeState
    <3>5. o.term = a.term + 1
      BY <3>1, <3>2, <3>3, Zenon
    <3> HIDE DEF o
    <3> QED
      BY <3>4, <3>5
  <2> HIDE DEF o
  <2>4. a.state = "Follower" => Stands(i, n, o)
    <3> SUFFICES ASSUME a.state = "Follower", n.state = "PreCandidate" PROVE o.term # n.term + 1
      BY DEF Stands
    <3>1. a.term = m.term /\ m.term > n.term
      BY <1>4
    <3>2. o.term \in Nat
      BY <2>2 DEF NodeState
    <3> QED
      BY <1>1, <2>3, <3>1, <3>2
  <2> QED
    BY <1>6, <1>7, <2>1, <2>2, <2>4
<1>15. CASE ReceiveTransferLeader(i, m)
  <2> DEFINE o == StepTransferLeader(i, a, m.from)
  <2>1. Become(i, o)
    BY <1>15 DEF ReceiveTransferLeader, a, n
  <2>2. o \in NodeState /\ Calm(i, a, o)
    BY <1>1, <1>3, StepTransferLeaderType, StepTransferLeaderCalm
  <2> HIDE DEF o
  <2> QED
    BY <1>5, <2>1, <2>2
<1>16. CASE ReceiveProp(i, m)
  <2> DEFINE o == StepProp(i, n, m.val)
  <2>1. m.val \in Value /\ Become(i, o)
    BY <1>1, <1>16, MessageFields DEF ReceiveProp, PropMsg, n
  <2>2. o \in NodeState /\ Calm(i, n, o)
    BY <1>1, <2>1, StepPropType, StepPropCalm
  <2> HIDE DEF o
  <2> QED
    BY <1>6, <2>1, <2>2, CalmStands
<1> QED
  BY <1>8, <1>9, <1>10, <1>11, <1>12, <1>13, <1>14, <1>15, <1>16 DEF Deliver

\* A call of a timer or of the application
LEMMA LocalStands ==
    ASSUME SpeechInv, NEW i \in Node, Local(i)
    PROVE  \E o \in NodeState : Become(i, o) /\ Stands(i, node[i], o)
<1> DEFINE n == node[i]
           Goal == \E o \in NodeState : Become(i, o) /\ Stands(i, n, o)
<1>1. n \in NodeState /\ n.term \in Nat
  BY DEF SpeechInv, CommitInv, ElectionInv, TypeOK, NodeState
<1>2. ASSUME NEW o \in NodeState, Become(i, o), Calm(i, n, o)
      PROVE  Goal
  BY <1>2, CalmStands
<1>3. ASSUME NEW o \in NodeState, Become(i, o), n.state # "PreCandidate"
      PROVE  Goal
  BY <1>3 DEF Stands
<1>4. n.state = "PreCandidate" => PreVote
  BY DEF SpeechInv, Manners, BackedByGrants
<1> SUFFICES Goal
  OBVIOUS
<1> HIDE DEF Goal
<1>5. CASE Hup(i)
  <2> DEFINE o == Campaign(i, n, PreVote)
  <2>1. Become(i, o) /\ PreVote \in BOOLEAN
    BY <1>5, OptionAssumption DEF Hup
  <2>2. o \in NodeState
    BY <1>1, <2>1, CampaignType
  <2>3. CASE n.state = "PreCandidate"
    <3>1. PreVote = TRUE
      BY <1>4, <2>1, <2>3, Zenon
    <3>2. Calm(i, n, Campaign(i, n, TRUE))
      BY <1>1, PreCampaignCalm, Zenon
    <3>3. Calm(i, n, o)
      BY <3>1, <3>2, Zenon
    <3> HIDE DEF o
    <3> QED
      BY <1>2, <2>1, <2>2, <3>3
  <2>4. CASE n.state # "PreCandidate"
    <3> HIDE DEF o
    <3> QED
      BY <1>3, <2>1, <2>2, <2>4
  <2> QED
    BY <2>3, <2>4
<1>6. CASE Beat(i)
  <2> DEFINE o == BcastHeartbeat(i, n, {0})
  <2>1. Become(i, o)
    BY <1>6 DEF Beat
  <2>2. o \in NodeState /\ Calm(i, n, o)
    BY <1>1, BcastHeartbeatType, BcastHeartbeatCalm
  <2> HIDE DEF o
  <2> QED
    BY <1>2, <2>1, <2>2
<1>7. CASE CheckQuorumFails(i)
  <2> DEFINE o == BecomeFollower(i, n, n.term, None)
  <2>1. Become(i, o)
    BY <1>7 DEF CheckQuorumFails
  <2>2. n.term >= n.term
    BY <1>1
  <2>3. o \in NodeState /\ Calm(i, n, o)
    BY <1>1, <2>2, BecomeFollowerType, BecomeFollowerCalm
  <2> HIDE DEF o
  <2> QED
    BY <1>2, <2>1, <2>3
<1>8. CASE AbortTransfer(i)
  <2> DEFINE o == [n EXCEPT !.transferee = None]
  <2>1. Become(i, o)
    BY <1>8 DEF AbortTransfer
  <2>2. o \in NodeState /\ Calm(i, n, o)
    BY <1>1, SetFieldsCalm
  <2> HIDE DEF o
  <2> QED
    BY <1>2, <2>1, <2>2
<1>9. ASSUME NEW val \in Value, Propose(i, val)
      PROVE  Goal
  BY <1>1, <1>2, <1>9, StepPropType, StepPropCalm DEF Propose
<1>10. ASSUME NEW to \in Node, TransferLeader(i, to)
       PROVE  Goal
  BY <1>1, <1>2, <1>10, StepTransferLeaderType, StepTransferLeaderCalm DEF TransferLeader
<1>11. CASE ForgetLeader(i)
  <2> DEFINE o == [n EXCEPT !.lead = None]
  <2>1. Become(i, o)
    BY <1>11 DEF ForgetLeader
  <2>2. o \in NodeState /\ Calm(i, n, o)
    BY <1>1, SetFieldTypes, SetFieldsCalm
  <2> HIDE DEF o
  <2> QED
    BY <1>2, <2>1, <2>2
<1>12. ASSUME NEW j \in Node \ {i}, ReportUnreachable(i, j)
       PROVE  Goal
  <2> DEFINE pr == BecomeProbe(n.prog[j])
             o == [n EXCEPT !.prog[j] = pr]
  <2>1. Become(i, o) /\ n.state = "Leader"
    BY <1>12 DEF ReportUnreachable
  <2>2. n.prog[j] \in Progress
    BY <1>1 DEF NodeState
  <2>3. pr \in Progress
    BY <2>2, BecomeProbeType
  <2> HIDE DEF pr
  <2>4. o \in NodeState
    BY <1>1, <2>3, SetProgType
  <2> HIDE DEF o
  <2> QED
    BY <1>3, <2>1, <2>4
<1> QED
  BY <1>5, <1>6, <1>7, <1>8, <1>9, <1>10, <1>11, <1>12 DEF Local

\* A node steps one of its own answers
LEMMA AdvanceStands ==
    ASSUME SpeechInv, NEW i \in Node, Advance(i)
    PROVE  \E o \in NodeState : Become(i, o) /\ Stands(i, node[i], o)
<1> DEFINE m == Head(node[i].steps)
           n == [node[i] EXCEPT !.steps = Tail(@)]
           o == StepResponse(i, n, m)
<1>1. /\ node[i] \in NodeState /\ node[i].steps # <<>> /\ node[i].term \in Nat
      /\ node[i].steps \in Seq(VoteRespMsg \cup AppRespMsg)
      /\ OwnAnswers(i, node[i])
  BY DEF Advance, SpeechInv, CommitInv, ElectionInv, TypeOK, NodeState
<1>2. /\ m \in VoteRespMsg \cup AppRespMsg /\ m = node[i].steps[1]
      /\ Tail(node[i].steps) \in Seq(VoteRespMsg \cup AppRespMsg)
      /\ 1 \in 1..Len(node[i].steps)
  BY <1>1
<1>3. /\ m \in Message /\ m.type \in {"MsgVoteResp", "MsgPreVoteResp", "MsgAppResp"}
      /\ m.term \in Nat
  BY <1>2 DEF Message, VoteRespMsg, AppRespMsg
<1>4. /\ n \in NodeState /\ n.term = node[i].term /\ n.state = node[i].state
      /\ n.granted = node[i].granted
  BY <1>1, <1>2 DEF NodeState
<1>5. Become(i, n) \/ (Become(i, o) /\ ~(m.term < n.term))
  BY DEF Advance
<1>6. m.from = i
  BY <1>1, <1>2 DEF OwnAnswers
<1>7. n.state = "PreCandidate" => n.granted \subseteq Backers(i, n.term)
  BY <1>4 DEF SpeechInv, Manners, BackedByGrants
<1> HIDE DEF m, n
<1>8. CASE Become(i, n)
  <2>1. Stands(i, node[i], n)
    BY <1>4 DEF Stands
  <2> QED
    BY <1>4, <1>8, <2>1
<1>9. CASE Become(i, o) /\ ~(m.term < n.term)
  <2>1. m.term >= n.term
    BY <1>1, <1>3, <1>4, <1>9
  <2>2. o \in NodeState /\ Stands(i, n, o)
    BY <1>3, <1>4, <1>6, <1>7, <2>1, StepResponseType, StepResponseStands
  <2> HIDE DEF o
  <2>3. Stands(i, node[i], o)
    BY <1>4, <2>2 DEF Stands
  <2> QED
    BY <1>9, <2>2, <2>3
<1> QED
  BY <1>5, <1>8, <1>9

\* A step of any node
LEMMA StepStands ==
    ASSUME SpeechInv, [Next]_vars, NEW i \in Node
    PROVE  Stands(i, node[i], node'[i])
<1>1. ElectionInv /\ node \in [Node -> NodeState] /\ node[i].term \in Nat
  BY DEF SpeechInv, CommitInv, ElectionInv, TypeOK, NodeState
<1>2. ASSUME node'[i] = node[i]
      PROVE  Stands(i, node[i], node'[i])
  BY <1>2 DEF Stands
<1>3. ASSUME NEW j \in Node, NEW o \in NodeState, Become(j, o), Stands(j, node[j], o)
      PROVE  Stands(i, node[i], node'[i])
  BY <1>1, <1>2, <1>3, BecomeFrame
<1>4. ASSUME NEW j \in Node, Ready(j)
      PROVE  Stands(i, node[i], node'[i])
  <2>1. node'[i].state = node[i].state
    BY <1>1, <1>4 DEF Ready, NodeState
  <2> QED
    BY <2>1 DEF Stands
<1>5. ASSUME NEW j \in Node, Restart(j)
      PROVE  Stands(i, node[i], node'[i])
  <2>1. NewRaft(i, disk[i]).state = "Follower"
    BY DEF NewRaft, BecomeFollower, Reset
  <2>2. node'[i] = node[i] \/ node'[i] = NewRaft(i, disk[i])
    BY <1>1, <1>5 DEF Restart
  <2> QED
    BY <1>2, <2>1, <2>2 DEF Stands
<1>6. CASE UNCHANGED vars
  BY <1>2, <1>6 DEF vars
<1>7. ASSUME NEW j \in Node, \/ Advance(j) \/ Local(j) \/ \E m \in msgs : m.to = j /\ Deliver(j, m)
      PROVE  Stands(i, node[i], node'[i])
  <2>1. \E o \in NodeState : Become(j, o) /\ Stands(j, node[j], o)
    BY <1>7, AdvanceStands, LocalStands, DeliverStands
  <2> QED
    BY <1>3, <2>1
<1> QED
  BY <1>4, <1>5, <1>6, <1>7 DEF Next

\* Who goes on from a pre-campaign to a campaign of the next term has had pre-votes of a
\* quorum that it counts (poll, the MsgPreVoteResp case of stepCandidate).
THEOREM CampaignsAreBacked == Spec => CampaignIsBacked
<1>1. ASSUME SpeechInv, [Next]_vars, NEW i \in Node,
             node[i].state = "PreCandidate", node'[i].state = "Candidate",
             node'[i].term = node[i].term + 1
      PROVE  {j \in Node : \/ j = i
                           \/ \E m \in msgs : /\ m.type = "MsgPreVoteResp" /\ ~m.reject
                                              /\ m.from = j /\ m.to = i
                                              /\ m.term >= node[i].term} \in Quorum
  BY <1>1, StepStands DEF Stands, Backers
<1>2. SpeechInv /\ [Next]_vars =>
        [\A i \in Node :
            (/\ node[i].state = "PreCandidate" /\ node'[i].state = "Candidate"
             /\ node'[i].term = node[i].term + 1)
            =>  {j \in Node : \/ j = i
                              \/ \E m \in msgs : /\ m.type = "MsgPreVoteResp" /\ ~m.reject
                                                 /\ m.from = j /\ m.to = i
                                                 /\ m.term >= node[i].term} \in Quorum]_vars
  BY <1>1
<1> QED
  BY <1>2, SpeechInvariant, PTL DEF Spec, CampaignIsBacked
=============================================================================
