SPECIFICATION FairSpec
CONSTANTS
    StreamLen <- NoneOne
    BufLen = 1
    CountMod = 2
    ChanCap = 1
    Foreign = {{}}
    ForeignCap = 0
    Faults = {"client", "server", "link", "deadline"}
CHECK_DEADLOCK FALSE
PROPERTIES
    AllDelivered
    BothEnd
    ErrorEndsRun
