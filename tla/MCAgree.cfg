CONSTANTS
    p1 = p1
    p2 = p2
    p3 = p3
    go = go
    Node <- TwoNodes
    Command <- OneCommand
    Idle = idle
    LookaheadCap = 2
    HistoryLen = 2
    RingSize = 7
    PrimingTicks = 1
    MaxTicksPerPump = 2
    MaxTick = 3
    MaxCommands = 1
SPECIFICATION MCSpec
ACTION_CONSTRAINT OnePumpAtATime
INVARIANTS
    LogInv
    HistoriesAreTrue
    StayTogether
PROPERTY
    ImplementsAgreedLog
CHECK_DEADLOCK FALSE
