CONSTANTS
    MaxSize = 2
    SwapchainMayFail = TRUE
SPECIFICATION Spec
CHECK_DEADLOCK FALSE
INVARIANT
    VolatileSurfaceSurvives
