CONSTANTS
    posture = posture
    spike = spike
    Key <- OneKey
    Relative <- None
    Horizon = 1
    MaxOps = 2
    MaxFaults = 2
    MaxRestarts = 1
SPECIFICATION FairSpec
INVARIANTS
    OneActiveEpisode
    AnnouncedOnce
PROPERTIES
    ClosedOnProof
    SuppressionHolds
    FindingsConverge
CHECK_DEADLOCK FALSE
