SPECIFICATION FairSpec
CONSTANTS
    r1 = r1
    r2 = r2
    r3 = r3
    Req = {r1, r2, r3}
    Asks <- OneSession
    Versions = {"CORP_RELAY"}
    MaxSessions = 1
    MaxAge = 1
CHECK_DEADLOCK FALSE
INVARIANTS
    RunExclusive
    V1SlotHasReclaimer
    StuckHasCause
PROPERTIES
    V1SlotReclaimed
    RunStops
