\* Three lines of two dimensions, two of them in a read; one rotation or
\* truncation; two failed calls or restarts.
SPECIFICATION MCSpec
CONSTANTS
    Dimension = {"ok", "failed"}
    ReadCap = 2
    MaxLines = 3
    MaxMoves = 1
    MaxFaults = 2
INVARIANTS
    LinesCounted
PROPERTIES
    RequestsArrive
