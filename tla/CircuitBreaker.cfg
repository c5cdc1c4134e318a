CONSTANTS
    FailureThreshold = 5
    BackoffStep = 3
    DurationLimit = 64
    LBInterval = 10
    HealthInterval = 5
    MaxProbes = 2
    MaxInflight = 3
    MaxDebt = 2
SPECIFICATION FairSpec
INVARIANTS TypeOK NonClosedIsUnhealthy ClosedIsClean FailureBudget
PROPERTIES ChosenOnlyWhenClosed OpenIsProbed Recovers
