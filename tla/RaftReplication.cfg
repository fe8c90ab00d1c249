\* One leader replicates the proposals that reach it from the other nodes, and hands over when asked.
SPECIFICATION SpecReplicating

CONSTANTS
    n1 = n1
    n2 = n2
    n3 = n3
    v1 = v1
    Node = {n1, n2, n3}
    None = None
    Value = {v1}
    MaxEnts = 2
    Empty = Empty
    PreVote = TRUE
    CheckQuorum = TRUE
    Calls <- Replicating
    Prompt = TRUE
    MaxTerm = 2
    MaxLog = 3
    MaxRestarts = 0

SYMMETRY Symmetry23

INVARIANTS
    TypeOK
    CommittedIsOnQuorum
    TermsComeFromElections

PROPERTIES
    CampaignIsBacked
    TransfereeHasCaughtUp
