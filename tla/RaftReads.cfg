\* Reads are asked for while one leader replaces another and a node restarts.
SPECIFICATION SpecLed

CONSTANTS
    n1 = n1
    n2 = n2
    n3 = n3
    v1 = v1
    Node = {n1, n2, n3}
    None = None
    Value = {}
    MaxEnts = 2
    Empty = Empty
    PreVote = FALSE
    CheckQuorum = FALSE
    Calls <- Replaced
    Prompt = TRUE
    MaxTerm = 3
    MaxLog = 2
    MaxRestarts = 1
    MaxReads = 1

INVARIANTS
    ReadsAreCurrent
    RequestsAreTheLeaders
