SPECIFICATION FairSpec
CONSTANTS
    Reqs = {r1, r2}
    Probes = 2
    Critical = {1}
    LoggerFails = TRUE
    Kills = TRUE
    MaxTicks = 3
INVARIANTS OnlyAuthorized AnswerIsLogged ShutdownLosesNothing
INVARIANTS AggregateIsWorst HealthStory
PROPERTY ShutsDown
CHECK_DEADLOCK FALSE
