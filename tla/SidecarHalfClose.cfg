CONSTANTS
    Kinds <- ComingIn
    MaxMessages = 2
    MaxRetries = 3
SPECIFICATION FairSpec
PROPERTY EOFEndsConnection
CHECK_DEADLOCK FALSE
