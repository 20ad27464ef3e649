\* Every body, retunes and replaced network managers; a process that
\* std::unexpected() ended takes no more steps.
CONSTANTS
    Stations = {a}
    Previous = p
    MaxAttempts = 3
    Bodies = {"ok", "error", "raw"}
    PlaylistSizes = {1, 2}
    MaxWire = 3
    MaxXspfs = 3
    MayRetune = TRUE
    MayReplaceNam = TRUE
SPECIFICATION Spec
INVARIANTS
    TypeOK
    RequestWaitsForTimer
    ExpiredPlaylistsAreGone
    GivesUpAfterAttempts
CHECK_DEADLOCK FALSE
