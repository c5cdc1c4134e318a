CONSTANTS
    FailureThreshold = 2
    BackoffStep = 1
    DurationLimit = 4
    LBInterval = 2
    HealthInterval = 1
    Services <- TwoServices
    Requests = {r1, r2}
    MaxEndpoints = 2
    Configs <- TwoConfigs
    MaxGen = 2
    MaxVisits = 1
    MaxRetries = 2
    NoConfig = NoConfig
    NoRequest = NoRequest
    NoBackend = NoBackend
SPECIFICATION FairSpec
INVARIANTS TypeOK ActiveAccounting RetainedServed
PROPERTY Answered
CHECK_DEADLOCK FALSE
