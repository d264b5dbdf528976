CONSTANTS
    Reconnect = TRUE
    PolicyRaises = TRUE
    Heartbeat = TRUE
    BadFrames = TRUE
    Overlap = TRUE
    MaxConns = 3
    MaxStarts = 2
SPECIFICATION FairSpec
CHECK_DEADLOCK FALSE
PROPERTIES
    ClosesOnlyWhatItPinged
    StoppedGoesQuiet
