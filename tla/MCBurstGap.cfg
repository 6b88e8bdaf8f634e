CONSTANTS
    p1 = p1
    p2 = p2
    p3 = p3
    go = go
    Node <- TwoNodes
    Command <- OneCommand
    Idle = idle
    LookaheadCap = 2
    HistoryLen = 2
    RingSize = 8
    PrimingTicks = 1
    MaxTicksPerPump = 2
    MaxTick = 5
    MaxCommands = 1
SPECIFICATION Spec
ACTION_CONSTRAINT OnePumpAtATime
INVARIANTS
    HistoryReachesPeers
CHECK_DEADLOCK FALSE
