\* A window of one message; one message is lost or repeated, and the log may be
\* compacted under the follower.
SPECIFICATION Spec

CONSTANTS
    Nothing = Nothing
    MaxEnts = 1
    MaxInflight = 1
    Own = 2
    Built = {"baseline", "rerun"}
    MaxLog = 3
    MaxWire = 2
    MaxFaults = 1

INVARIANTS
    WindowIsKept
    FollowerHasIt
    FormsAgree

PROPERTIES
    CatchesUp
