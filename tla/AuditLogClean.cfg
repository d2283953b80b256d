SPECIFICATION Spec
CONSTANTS
    Keep = 2
    MaxSize = 3
    Window = 2
    Sizes = {1}
    MaxAge = FALSE
    Faults = {}
    MaxEvents = 10
    MaxBoots = 3
CHECK_DEADLOCK FALSE
INVARIANTS ChainTipOnDisk RetainsKeepFiles VerifyCountsGaps
