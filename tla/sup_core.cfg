CONSTANTS
    Reconnect = TRUE
    PolicyRaises = FALSE
    Heartbeat = TRUE
    BadFrames = FALSE
    Overlap = FALSE
    MaxConns = 4
    MaxStarts = 3
SPECIFICATION FairSpec
CHECK_DEADLOCK FALSE
INVARIANTS
    TypeOK
    NoSocketLeak
    PumpHasConnection
    EndReleasesRunForever
    StoppedIsQuiet
PROPERTIES
    StopReturns
    DropIsNoticed
    ImplementsConnectivity
