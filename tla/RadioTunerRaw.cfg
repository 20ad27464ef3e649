\* Does parse() throw only ParseError?
CONSTANTS
    Stations = {a}
    Previous = p
    MaxAttempts = 3
    Bodies = {"ok", "error", "raw"}
    PlaylistSizes = {1, 2}
    MaxWire = 2
    MaxXspfs = 2
    MayRetune = FALSE
    MayReplaceNam = FALSE
SPECIFICATION Spec
INVARIANT
    NeverTerminated
CHECK_DEADLOCK FALSE
