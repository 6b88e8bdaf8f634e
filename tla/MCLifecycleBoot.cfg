CONSTANTS
    MaxSize = 2
    SwapchainMayFail = FALSE
SPECIFICATION Spec
CHECK_DEADLOCK FALSE
INVARIANT
    TenantKnowsItsSize
