CONSTANTS
    Intents = {i1}
    MaxAttempts = 4
    BareErrors = FALSE
SPECIFICATION Spec
CHECK_DEADLOCK FALSE
INVARIANTS
    TypeOK
    AtMostOnePlaced
    ResultMeansPlaced
    VerdictsAreTrue
    OnlyTypedErrors
    DoubtfulIsListed
