CONSTANTS
    Buffered = TRUE
    MaxRequests = 1
    MaxInits = 1
SPECIFICATION Spec
INVARIANT WindowIsWhole
CHECK_DEADLOCK FALSE
