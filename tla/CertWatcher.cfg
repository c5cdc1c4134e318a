CONSTANTS
    Writers = {"files", "volume"}
    MaxRotations = 2
SPECIFICATION FairSpec
INVARIANTS NoLostRotation NeverOlder
PROPERTIES Follows
CHECK_DEADLOCK FALSE
