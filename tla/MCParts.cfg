CONSTANTS
    BufferSize = 60
    Waits = 2
    MessageLengths = {0, 4, 8, 12, 16, 20, 24, 28, 32, 36, 40, 65535}
    Lengths = {0, 1, 8, 9, 20, 65535}
    Lobby = {0}
    Fds = {f1, f2}
    QueueSize = 3
    MaxCounts = {1, 2}
    MaxArrivals = 4
    MaxPlayers = 2
    Tiles = {0, 1, 2}
    Capacity = 3
    MaxAppends = 6
    MaxRequests = 3
    MaxInits = 3
SPECIFICATION MCSpec
CHECK_DEADLOCK FALSE
INVARIANTS
    PartsTypeOK
    ReadsInBounds
    AddressIsFound
    PipeIsTight
    NewestAreKept
    HandshakesHold
PROPERTY
    StunPunchEnds
