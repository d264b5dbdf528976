CONSTANTS
    Handlers = {h1, h2}
    Methods = {"subscribe", "add_order"}
    MaxRequests = 2
    MaxRegistered = 2
SYMMETRY Symmetry
SPECIFICATION Spec
CHECK_DEADLOCK FALSE
INVARIANTS
    TypeOK
    EveryHandlerIsCalled
    InRegistrationOrder
    OutcomeIsTheVerdict
PROPERTIES
    ReplyReachesItsCaller
