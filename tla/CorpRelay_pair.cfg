SPECIFICATION Spec
CONSTANTS
    StreamLen <- OneTwo
    BufLen = 2
    CountMod = 2
    ChanCap = 1
    Foreign = {{}, {"server"}}
    ForeignCap = 1
    Faults = {"client", "server", "link"}
CHECK_DEADLOCK FALSE
INVARIANTS
    TypeOK
    StreamIntegrity
    CounterExact
    ErrorHasCause
PROPERTIES
    ImplementsPipes
