CONSTANTS
    Mode = "sidecar"
    Intervals = {0, 1, 2}
    MaxConfigs = 3
SPECIFICATION FairSpec
INVARIANTS AllOrNothing CapturedIsLive CheckerAlive NewestTicksAtInterval
PROPERTY ChecksGoOn
CHECK_DEADLOCK FALSE
