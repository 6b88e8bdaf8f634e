CONSTANTS
    Windows = {w1}
    SlotCount = 1
    MaxJobs = 1
    MaxRebuilds = 1
    Hangs = FALSE
SPECIFICATION Spec
INVARIANT RebuildIsAlone
