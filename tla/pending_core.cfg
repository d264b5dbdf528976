CONSTANTS
    u1 = u1
    s = s
    h = h
    p1 = p1
    p2 = p2
    NoCaller = NoCaller
    Requesters <- UserReplayHandler
    Pingers <- Nobody
    ReplayCallers <- Replay
    HandlerCallers <- Handler
    DispatchRaises = FALSE
    MaxId = 3
    MaxTickets = 3
    MaxEpoch = 2
    MaxInbox = 1
SPECIFICATION FairSpec
CHECK_DEADLOCK FALSE
INVARIANTS
    TypeOK
    NoCrossConnectionWait
    Correlation
PROPERTIES
    DropFailsEveryone
    AnswersConsumed
    CallsEnd
