CONSTANTS
    u1 = u1
    s = s
    h = h
    p1 = p1
    p2 = p2
    NoCaller = NoCaller
    Requesters <- Replay
    Pingers <- Nobody
    ReplayCallers <- Replay
    HandlerCallers <- Nobody
    DispatchRaises = FALSE
    MaxId = 1
    MaxTickets = 1
    MaxEpoch = 2
    MaxInbox = 1
SPECIFICATION Spec
CHECK_DEADLOCK FALSE
PROPERTIES
    TimeoutMeansNoReply
