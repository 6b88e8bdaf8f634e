CONSTANTS
    p1 = p1
    p2 = p2
    go = go
    Node <- TwoNodes
    Command <- OneCommand
    Idle = idle
    LookaheadCap = 2
    HistoryLen = 2
    RingSize = 8
    PrimingTicks = 1
    MaxTicksPerPump = 1
    MaxTick = 4
    MaxCommands = 1
    MaxDelay = 0
SPECIFICATION TimelySpec
PROPERTY GameGoesOn
CHECK_DEADLOCK FALSE
