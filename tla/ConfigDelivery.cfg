CONSTANTS
    BadAddresses = {}
    Texts = {"shared", "one", "nomethod"}
    Empty = "empty"
    Raw <- MCRaw
    Junk = Junk
    MaxSaves = 2
    MaxReloads = 2
    Proxies = {"p1"}
    MaxRestarts = 1
SPECIFICATION FairSpec
INVARIANT RoutedAsDeclared
PROPERTIES PanicsExplained NeverEmptied Delivered
CHECK_DEADLOCK FALSE
