\* A container that writes three lines at two moments, on either stream; polls
\* of two lines, a table of two rows, and a failure or restart.
SPECIFICATION LogsSpec
CONSTANTS
    Container = {blue}
    MaxLines = 3
    MaxStamp = 2
    PollCap = 2
    RowCap = 2
    MaxLimit = 3
    ScanChunk = 1
    ScanPages = 2
    MaxFailures = 1
INVARIANTS
    LinesAreKept
    VolumeMatchesRows
    SearchFindsNewest
PROPERTY LinesArrive
