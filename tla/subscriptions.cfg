CONSTANTS
    Entries = {e1, e2}
    MaxCalls = 3
    MaxEpoch = 3
SPECIFICATION FairSpec
CHECK_DEADLOCK FALSE
INVARIANTS
    TypeOK
    NoDuplicates
    RegistryIsLive
    OffStaysOff
PROPERTIES
    ReplayIsOver
