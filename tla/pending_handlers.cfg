CONSTANTS
    u1 = u1
    s = s
    h = h
    p1 = p1
    p2 = p2
    NoCaller = NoCaller
    Requesters <- UserAndHandler
    Pingers <- TwoPingers
    ReplayCallers <- Nobody
    HandlerCallers <- Handler
    DispatchRaises = TRUE
    MaxId = 2
    MaxTickets = 2
    MaxEpoch = 2
    MaxInbox = 1
SPECIFICATION Spec
CHECK_DEADLOCK FALSE
INVARIANTS
    RepliesCorrelated
    RequestsRegistered
    NoSlotLeak
PROPERTIES
    LoserKeepsWinner
    DropFailsEveryone
