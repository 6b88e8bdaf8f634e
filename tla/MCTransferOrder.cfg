CONSTANTS
    Windows = {w1}
    SlotCount = 2
    MaxJobs = 2
    MaxRebuilds = 0
    Hangs = FALSE
SPECIFICATION Spec
INVARIANT CompletionMeansCopied
