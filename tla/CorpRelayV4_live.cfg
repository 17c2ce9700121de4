SPECIFICATION FairSpec
CONSTANTS
    StreamLen <- OneEach
    MaxArrayLen = 2
    BufioSize = 2
    CountMod = 4
    ChanCap = 3
    Foreign = {{}}
    ForeignCap = 0
    Faults = {"client", "server", "link", "deadline"}
CHECK_DEADLOCK FALSE
PROPERTIES
    AllDelivered
    BothEnd
