\* A leader that loses its quorum steps down and comes back; answers to its
\* earlier term reach it late, and the leadership is asked for and handed over.
\* The oracle watches.
SPECIFICATION OracleSpec

CONSTANTS
    n1 = n1
    n2 = n2
    n3 = n3
    v1 = v1
    Node = {n1, n2}
    None = None
    Value = {}
    MaxEnts = 2
    Empty = Empty
    PreVote = FALSE
    CheckQuorum = TRUE
    Calls <- SteppingDown
    Prompt = TRUE
    MaxTerm = 3
    MaxLog = 2
    MaxRestarts = 0

INVARIANTS
    OracleIsQuiet
    NoPanic
    TransferIsForwardedOnce
