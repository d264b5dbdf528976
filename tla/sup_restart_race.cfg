CONSTANTS
    Reconnect = TRUE
    PolicyRaises = FALSE
    Heartbeat = FALSE
    BadFrames = FALSE
    Overlap = TRUE
    MaxConns = 3
    MaxStarts = 2
SPECIFICATION Spec
CHECK_DEADLOCK FALSE
INVARIANTS
    EndReleasesRunForever
