\* Every order of changes, notices, calls and replaced managers on the platforms,
\* on Windows with the proxy that the calls ask for.
CONSTANTS
    Platforms = {"linux", "mac", "windows"}
    MaxRequests = 2
    MaxNotices = 2
    MayReplaceNam = TRUE
SPECIFICATION ProxySpec
INVARIANTS
    UpFollowsDown
    ConnectedTellsNet
PROPERTIES
    AgreesInTheEnd
    ProxyAskedAgain
