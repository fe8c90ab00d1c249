----------------------------- MODULE MCReadIndex -----------------------------
(* An instance of ReadIndex: a leader that may be replaced, or may restart,   *)
(* while reads are asked for.                                                 *)
EXTENDS ReadIndex, MCRaft

\* n1 leads and sends heartbeats when reads wait for them, n3 competes, and both are
\* asked for reads
Replaced == {<<"Hup", n3>>, <<"BeatReads", n1>>, <<"ReadIndex", n1>>, <<"ReadIndex", n3>>}

(* n1 leads term 2 and has committed its first entry with n3, which does not  *)
(* know; n2 has seen nothing of the term.  All messages so far are lost.      *)
Leads ==
    [NewRaft(n1, [Stored(2, n1, First(2)) EXCEPT !.commit = 2]) EXCEPT
        !.state = "Leader", !.lead = n1,
        !.prog = [j \in Node |->
            IF j = n2 THEN [SentEntries(ResetProgress(0, 1), 1) EXCEPT !.sentCommit = 1]
            ELSE [BecomeReplicate(ResetProgress(2, 2)) EXCEPT
                    !.sentCommit = IF j = n3 THEN 2 ELSE 0]]]

InitLed ==
    /\ node = [i \in Node |->
          CASE i = n1 -> Leads
            [] i = n2 -> NewRaft(n2, BootDisk)
            [] i = n3 -> [NewRaft(n3, Stored(2, n1, First(2))) EXCEPT !.lead = n1]]
    /\ disk = [i \in Node |-> HardState(node[i])]
    /\ msgs = {}
    /\ restarts = 0
    /\ NoRequests

\* A restart is one of n1 or n3, while the read has no answer  (a bound)
RestartsMeanwhile ==
    restarts' # restarts => asked # <<>> /\ answers = {} /\ node'[n2] = node[n2]

SpecLed == InitLed /\ [][ReadNext /\ RestartsMeanwhile]_readVars

=============================================================================
