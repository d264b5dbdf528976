CONSTANTS
    Intents = {i1}
    MaxAttempts = 2
    BareErrors = TRUE
SPECIFICATION Spec
CHECK_DEADLOCK FALSE
INVARIANT OnlyTypedErrors
