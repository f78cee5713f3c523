\* Four reports of one fingerprint, so that a second spike fits, over three
\* instants, with a table of two, a retention of one, passes over a budget of
\* four rows and one failure.
SPECIFICATION Spec
CONSTANTS
    Fingerprint = {f1}
    Client = {c1}
    Cap = 2
    Window = 1
    Threshold = 2
    Retention = 1
    Budget = 4
    Batch = 1
    MaxTime = 2
    MaxReports = 4
    MaxFaults = 1
INVARIANTS
    AnnouncedOnce
    OrphansAreDue
PROPERTIES
    SpikesAnnounced
