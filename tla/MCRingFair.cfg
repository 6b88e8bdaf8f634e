CONSTANTS
    RingSlots = 3
    FrameSlots = 2
    FrameIds = 4
SPECIFICATION FairSpec
INVARIANT TypeOK
PROPERTIES
    FramesAreTaken
    ProducerIsServed
