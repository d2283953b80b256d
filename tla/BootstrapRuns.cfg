SPECIFICATION FairSpec
CONSTANTS
    Reqs = {r1, r2, r3}
    Certified = {r3}
    Tokens = {t1}
    NoToken = NoToken
    NoReq = NoReq
    MaxAttempts = 2
    Faults = {"crash", "marker", "remove", "lost"}
    MaxBoots = 2
CHECK_DEADLOCK FALSE
INVARIANTS OneTimeToken MarkerTellsTruth AnswerIsAudited
PROPERTIES LockoutHolds Answered
