CONSTANTS
    Node = {1, 2, 3}
    None = 0
    ElectionTick = 3
    Behind = {1}
    MaxFaults = 1
    MaxLength = 7
SPECIFICATION Spec
INVARIANTS
    LoneLeaderStepsDown
PROPERTIES
    LeaderIsUndisturbed
    EventuallyLed
