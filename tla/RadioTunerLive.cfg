\* Liveness while no body makes parse() throw a bare enum and the manager
\* stays.
CONSTANTS
    Stations = {a}
    Previous = p
    MaxAttempts = 2
    Bodies = {"ok", "error"}
    PlaylistSizes = {1}
    MaxWire = 2
    MaxXspfs = 2
    MayRetune = TRUE
    MayReplaceNam = FALSE
SPECIFICATION FairSpec
INVARIANT
    FetchingHasCall
PROPERTY
    StarvedIsServed
