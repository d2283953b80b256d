SPECIFICATION FairSpec
CONSTANTS
    Keep = 2
    MaxSize = 3
    Window = 4
    Sizes = {1, 2}
    MaxAge = FALSE
    Faults = {"crash", "write", "reopen", "keywrite"}
    MaxEvents = 7
    MaxBoots = 3
CHECK_DEADLOCK FALSE
INVARIANTS HashesVerify SizeBounded
PROPERTIES ImplementsTrail LogReturns
