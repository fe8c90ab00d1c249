\* The logs have diverged, and an entry of an old term sits on a quorum without being committed.
SPECIFICATION SpecDiverged

CONSTANTS
    n1 = n1
    n2 = n2
    n3 = n3
    v1 = v1
    Node = {n1, n2, n3}
    None = None
    Value = {v1}
    MaxEnts = 1
    Empty = Empty
    PreVote = FALSE
    CheckQuorum = FALSE
    Calls <- Rivals
    Prompt = TRUE
    MaxTerm = 5
    MaxLog = 2
    MaxRestarts = 0

INVARIANTS
    LogMatching
    LeaderCompleteness

PROPERTIES
    ImplementsReplicatedLog
