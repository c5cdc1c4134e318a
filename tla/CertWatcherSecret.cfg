CONSTANTS
    Writers = {"volume"}
    MaxRotations = 2
SPECIFICATION FairSpec
PROPERTY SecretUpdatesReload
CHECK_DEADLOCK FALSE
