\* One client writes, one reads, both may give up, and the network repeats proposals.
SPECIFICATION Spec

CONSTANTS
    c1 = c1
    c2 = c2
    n1 = n1
    n2 = n2
    Client = {c1, c2}
    Node = {n1, n2}
    None = None
    Prefer <- OwnNode
    Issues <- OneWriter
    OpTimeout = 2
    Duplicates = TRUE
    MaxOps = 2
    MaxCommits = 1
    MaxLog = 3
    MaxTick = 5

\* The simulation ends after MaxTick ticks
CHECK_DEADLOCK FALSE

INVARIANTS
    TypeOK
    ExplainedInClientOrder
    AckIsForOwnWrite
    OperationsEnd
    ReadsAreFresh
