SPECIFICATION FairSpec
CONSTANTS
    Lines = 5
    PipeCap = 2
    ChanCap = 2
INVARIANTS InOrderNoLoss SuccessIsWhole
PROPERTIES LeavingEndsAll EndsWithJournalctl
CHECK_DEADLOCK FALSE
