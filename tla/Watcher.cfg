CONSTANTS
    MaxChanges = 3
    Empty = {2}
    ChanCap = 2
    Consul = TRUE
SPECIFICATION FairSpec
INVARIANT NoLostWakeup
PROPERTY AdaptsOnceStarted
CHECK_DEADLOCK FALSE
