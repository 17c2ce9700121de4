SPECIFICATION FairSpec
CONSTANTS
    StreamLen <- FourEach
    MaxArrayLen = 2
    BufioSize = 2
    CountMod = 10
    ChanCap = 1
    Foreign = {{}}
    ForeignCap = 0
    Faults = {}
CHECK_DEADLOCK FALSE
PROPERTY
    AllDelivered
