CONSTANTS
    o1 = o1
    o2 = o2
    c1 = c1
    c2 = c2
    c3 = c3
    Call <- ThreeCalls
    OldDumps <- TwoDumps
    Keep = 2
    MaxRows = 2
    Faults = {"docker", "disk"}
    MaxCrashes = 1
SPECIFICATION MCSpec
INVARIANTS
    GuardMatchesRun
    NoOrphanRows
    SuccessIsAudited
    ReportedDumpsRotate
    SafetyCopyFirst
PROPERTY
    JobsEnd
CHECK_DEADLOCK FALSE
