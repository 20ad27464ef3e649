\* Two processes with one collection; a process may die between any two
\* statements, and one statement fails.
CONSTANTS
    Procs = {p1, p2}
    f1 = f1
    f2 = f2
    Files = {f1, f2}
    Objects = {a, b}
    Nobody = none
    NoId = null
    Ids = {1, 2, 5}
    OldId = 3
    IntLimit = 4
    MaxCrashes = 1
    MaxSqlFailures = 1
    MaxMoves = 1
    MaxRows = 2
    ServiceId <- MCServiceId
SYMMETRY MCSymmetry
SPECIFICATION Spec
INVARIANTS
    OldIdsAreWiped
    RowsAreAnswers
    IdBelongsToFile
PROPERTY
    AnswersSurvive
