CONSTANTS
    MaxSize = 2
    SwapchainMayFail = FALSE
SPECIFICATION MCSpec
CHECK_DEADLOCK FALSE
PROPERTY
    InOrderWindowComesBack
