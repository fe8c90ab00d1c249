\* Three nodes, of which any may be removed, in two terms.
SPECIFICATION Spec

CONSTANTS
    Server = {s1, s2, s3}
    None = None
    Bootstrapped = {s1, s2, s3}
    Changes <- Shrinking
    MaxUncommitted = 1
    MaxTerm = 2
    MaxLog = 3

SYMMETRY Symmetry

\* Logs and terms are bounded
CHECK_DEADLOCK FALSE

INVARIANTS
    OneLeaderPerTerm
    CommittedForGood
    OneChangePending
    ChangesFit
    QuotaIsNotOverestimated
