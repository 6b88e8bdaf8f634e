CONSTANTS
    MaxSize = 2
    SwapchainMayFail = TRUE
SPECIFICATION MCSpec
CHECK_DEADLOCK FALSE
INVARIANTS
    TypeOK
    WindowOutlivesSurface
    InOrderNothingIsLost
PROPERTIES
    InOrderShutdownCompletes
    InOrderCloseIsHeeded
    InOrderResizeIsHandled
