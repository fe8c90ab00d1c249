\* A Ready is handled at any later time, so it may hold the effects of several calls,
\* and a restart may fall between them.
SPECIFICATION Spec

CONSTANTS
    n1 = n1
    n2 = n2
    n3 = n3
    v1 = v1
    Node = {n1, n2, n3}
    None = None
    Value = {}
    MaxEnts = 2
    Empty = Empty
    PreVote = FALSE
    CheckQuorum = FALSE
    Calls <- TwoHup
    Prompt = FALSE
    MaxTerm = 2
    MaxLog = 2
    MaxRestarts = 1

SYMMETRY Symmetry12

INVARIANTS
    ElectionInv
    ElectionSafety
    VotesAreDurable
    MatchIsDurable

PROPERTIES
    DiskOnlyAdvances
