SPECIFICATION Spec
CONSTANTS
    Keep = 2
    MaxSize = 2
    Window = 20
    Sizes = {1}
    MaxAge = TRUE
    Faults = {"crash", "power", "write", "torn", "dir", "reopen", "keyread", "keywrite"}
    MaxEvents = 5
    MaxBoots = 3
CHECK_DEADLOCK FALSE
INVARIANTS InOrder BreakMeansLoss LossBreaks
