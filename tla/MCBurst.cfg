CONSTANTS
    p1 = p1
    p2 = p2
    p3 = p3
    go = go
    Node <- TwoNodes
    Command <- OneCommand
    Idle = idle
    LookaheadCap = 1
    HistoryLen = 3
    RingSize = 5
    PrimingTicks = 1
    MaxTicksPerPump = 3
    MaxTick = 5
    MaxCommands = 1
SPECIFICATION Spec
ACTION_CONSTRAINTS
    OnePumpAtATime
    OneEarlyCommand
INVARIANTS
    TypeOK
    LookaheadBound
    PacketsFitRing
    RollbackInReach
    InductiveInv
SYMMETRY NodeSymmetry
CHECK_DEADLOCK FALSE
