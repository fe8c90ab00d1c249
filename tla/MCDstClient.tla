---------------------------- MODULE MCDstClient ----------------------------
(* The instances of DstClient that TLC explores: who talks to which node, and *)
(* who writes and who reads.                                                  *)
EXTENDS DstClient

CONSTANTS c1, c2, n1, n2

\* One client per node, as DefaultScenario makes them
OwnNode == [c \in Client |-> IF c = c1 THEN n1 ELSE n2]

\* One client writes, the other reads
OneWriter == {<<c1, "W">>, <<c2, "R">>}

\* One client does both
Alone == {c1} \X {"W", "R"}

\* Both write, one reads
TwoWriters == {<<c1, "W">>, <<c2, "W">>, <<c2, "R">>}

=============================================================================
