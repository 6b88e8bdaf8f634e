CONSTANTS
    Windows = {w1, w2}
    Keys = {k1}
    MaxPresses = 3
    Places = {0}
    MovedPlaces = {0, 1}
    SlotCount = 2
    MaxJobs = 3
    MaxRebuilds = 1
    Hangs = TRUE
SPECIFICATION MCSpec
INVARIANTS
    ThreadsTypeOK
    ClickIsOfOnePress
    DeltaConserved
    JobsAreSafe
PROPERTY
    SlotsAreGivenBack
