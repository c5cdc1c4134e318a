CONSTANTS
    Kinds <- Meshed
    MaxMessages = 3
    MaxRetries = 3
SPECIFICATION FairSpec
INVARIANTS TypeOK NothingLeaks
PROPERTIES EOFEndsServed PeekedBytesArrive
CHECK_DEADLOCK FALSE
