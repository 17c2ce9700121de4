SPECIFICATION FairSpec
CONSTANTS
    h1 = h1
    h2 = h2
    b1 = b1
    Helpers = {h1, h2}
    Browsers = {b1}
    Deployments <- MCDeployments
    Queries <- MCQueries
    VersionMod = 4
    Tokens = {"origin", "other"}
    MaxCrashes = 2
CHECK_DEADLOCK FALSE
INVARIANTS
    TypeOK
    DocumentedConnects
    RanMeansAgreed
    CookieWithEndpoint
    AnswerFits
    SessionWasAuthorized
    ZeroMeansRan
PROPERTY
    HelperSettles
