CONSTANTS
    Reconnect = TRUE
    PolicyRaises = TRUE
    Heartbeat = FALSE
    BadFrames = FALSE
    Overlap = FALSE
    MaxConns = 1
    MaxStarts = 1
SPECIFICATION Spec
CHECK_DEADLOCK FALSE
INVARIANTS
    EndReleasesRunForever
