SPECIFICATION Spec
CONSTANTS
    StreamLen <- OneThree
    MaxArrayLen = 2
    BufioSize = 2
    CountMod = 8
    ChanCap = 1
    Foreign = {{}, {"server"}}
    ForeignCap = 1
    Faults = {"client", "link"}
CHECK_DEADLOCK FALSE
INVARIANTS
    TypeOK
    OneWriter
    AckSound
    NoProtocolError
    StreamIntegrity
PROPERTIES
    SidSetOnce
    ImplementsUp
    ImplementsDown
