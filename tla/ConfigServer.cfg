CONSTANTS
    Proxies <- TwoProxies
    Streams <- OneReconnects
    MaxVersion = 2
    ChanCap = 1
    NoStream = NoStream
SPECIFICATION FairSpec
INVARIANTS TypeOK RegisteredOpen PushNeverBlocks NewestPending
PROPERTIES PanicsOnlyAfterShutdown ImplementsFeed Converges
CHECK_DEADLOCK FALSE
