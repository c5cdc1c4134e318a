CONSTANTS
    Proxies <- OneProxy
    Streams <- TwoStreams
    MaxVersion = 1
    ChanCap = 1
    NoStream = NoStream
SPECIFICATION Spec
INVARIANT SubscriberIsRegistered
CHECK_DEADLOCK FALSE
