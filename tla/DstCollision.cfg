\* Two clients write, each with its own counters.
SPECIFICATION Spec

CONSTANTS
    c1 = c1
    c2 = c2
    n1 = n1
    n2 = n2
    Client = {c1, c2}
    Node = {n1, n2}
    None = None
    Prefer <- OwnNode
    Issues <- TwoWriters
    OpTimeout = 9
    Duplicates = FALSE
    MaxOps = 2
    MaxCommits = 1
    MaxLog = 4
    MaxTick = 5

\* The simulation ends after MaxTick ticks
CHECK_DEADLOCK FALSE

INVARIANTS
    AckIsForOwnWrite
