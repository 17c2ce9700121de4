SPECIFICATION Spec
CONSTANTS
    Base = 8
    TagLen = 1
    DataLen = 1
    AckLen = 2
    SIDLen = 2
    MaxSIDLen = 3
    MaxArrayLen = 3
    MaxMessage = 5
CHECK_DEADLOCK FALSE
INVARIANTS
    TypeOK
    RoundTrip
    Canonical
