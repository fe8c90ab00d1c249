\* Two nodes send three messages, each of which may be delayed, repeated or lost.
SPECIFICATION Spec

CONSTANTS
    Node = {1, 2}
    MaxDelay = 2
    MayRepeat = TRUE
    MaxSends = 3
    MaxTick = 5

\* The simulation ends after MaxTick ticks
CHECK_DEADLOCK FALSE

INVARIANTS
    TypeOK
    PartitionIsClean
    ArrivesOnTime
    InOrder

PROPERTIES
    ImplementsLossyNetwork
