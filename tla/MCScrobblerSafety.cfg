\* Crashes, torn files and restarts; a restart needs an object for every play in
\* the file, so there are as many objects as plays.
CONSTANTS
    Objects = {o1, o2, o3}
    Songs = {s1, s2}
    Remnants = {s2}
    Stamps = {1}
    BatchLimit = 2
    Outcomes = {"ok", "retry", "refused"}
    MaxCall = 2
    MaxPlays = 3
    MaxFailures = 1
SPECIFICATION Spec
SYMMETRY ObjectSymmetry
INVARIANTS
    TypeOK
    InFlightIsHead
    DiskMatchesQueue
    SettledNeverResent
    UnsettledSongsAreKept
    StatusIsTrue
PROPERTIES
    DeliversInOrder
