SPECIFICATION FairSpec
CONSTANTS
    r1 = r1
    r2 = r2
    r3 = r3
    Req = {r1, r2}
    Asks <- AnyEndpoint
    Versions = {"CORP_RELAY_V4"}
    MaxSessions = 1
    MaxAge = 1
CHECK_DEADLOCK FALSE
PROPERTY
    V4SlotReclaimed
