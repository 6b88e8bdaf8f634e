CONSTANTS
    p1 = p1
    p2 = p2
    go = go
    Node <- TwoNodes
    Command <- OneCommand
    Idle = idle
    LookaheadCap = 2
    HistoryLen = 2
    RingSize = 8
    PrimingTicks = 1
    MaxTicksPerPump = 1
    MaxTick = 5
    MaxCommands = 0
    MaxDelay = 0
SPECIFICATION FairSpec
PROPERTY HaltEnds
CHECK_DEADLOCK FALSE
