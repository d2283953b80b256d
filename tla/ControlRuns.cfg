SPECIFICATION FairSpec
CONSTANTS
    Reqs = {r1, r2}
    Images = {i1, i2}
    Units = {u1}
    Invalid = Invalid
    None = None
    Ops = {"upgrade", "rollback", "reboot", "start", "stop", "restart"}
    Notices = TRUE
INVARIANTS SuccessFollowsEffect NothingAfterAnswer
PROPERTY LeavingEnds
CHECK_DEADLOCK FALSE
