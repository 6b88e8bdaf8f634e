CONSTANTS
    RingSlots = 4
    FrameSlots = 3
    FrameIds = 5
SPECIFICATION QuietSpec
INVARIANTS
    ReadUndisturbed
    CommandBufferIdle
PROPERTY ImplementsFrameQueue
