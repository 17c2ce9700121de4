SPECIFICATION Spec
CONSTANTS
    h1 = h1
    h2 = h2
    b1 = b1
    Helpers = {h1, h2}
    Browsers = {b1}
    Deployments <- DefaultAuth
    Queries <- MCQueries
    VersionMod = 4
    Tokens = {"origin", "other"}
    MaxCrashes = 0
CHECK_DEADLOCK FALSE
INVARIANT
    DefaultAuthConnects
