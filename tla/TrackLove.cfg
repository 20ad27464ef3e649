\* Two tracks of one song and every order of three calls, one manager replaced.
CONSTANTS
    Tracks = {a, b}
    MaxCalls = 3
    MaxNams = 1
    None = none
SPECIFICATION FairSpec
INVARIANTS
    CacheIsTrue
    LovedIsTheServers
PROPERTY
    CallerIsTold
CHECK_DEADLOCK FALSE
