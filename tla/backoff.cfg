CONSTANTS
    MaxExponent = 1023
    MaxAttempt = 1030
SPECIFICATION Spec
CHECK_DEADLOCK FALSE
PROPERTIES
    DoublesUpToCap
INVARIANTS
    TypeOK
    OnlyOverflowEndsIt
