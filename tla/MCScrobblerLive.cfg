\* Liveness with a server that answers or refuses but never puts the client off.
\* Nobody owes a call of submit(): the network alone is fair.
CONSTANTS
    Objects = {o1, o2}
    Songs = {s1, s2}
    Remnants = {s2}
    Stamps = {1, 2}
    BatchLimit = 1
    Outcomes = {"ok", "refused"}
    MaxCall = 2
    MaxPlays = 2
    MaxFailures = 1
SPECIFICATION FairSpec
PROPERTIES
    CacheDrains
