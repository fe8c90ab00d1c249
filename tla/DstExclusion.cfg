\* One client, whose write is given up and takes effect.
SPECIFICATION Spec

CONSTANTS
    c1 = c1
    c2 = c2
    n1 = n1
    n2 = n2
    Client = {c1, c2}
    Node = {n1, n2}
    None = None
    Prefer <- OwnNode
    Issues <- Alone
    OpTimeout = 2
    Duplicates = FALSE
    MaxOps = 3
    MaxCommits = 1
    MaxLog = 4
    MaxTick = 6

\* The simulation ends after MaxTick ticks
CHECK_DEADLOCK FALSE

INVARIANTS
    HistoryIsLinearizable
