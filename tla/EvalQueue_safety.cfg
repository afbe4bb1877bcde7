CONSTANTS
    w1 = w1
    w2 = w2
    Worker = {w1, w2}
    Issue = {1}
    RowId = {1, 2, 3, 4, 5, 6, 7, 8}
    Text = {0}
    TTL = 1
    MaxAttempts = 2
    OpenOnly = FALSE
    MaxGen = 1
    MaxEdits = 1
    MaxClears = 0
    MaxFaults = 1
    MaxCrashes = 0
SPECIFICATION Spec
SYMMETRY WorkerSymmetry
CHECK_DEADLOCK FALSE
INVARIANTS
    TypeOK
    CurrentMeansSameContent
    NoLeakedClaim
PROPERTIES
    ResultsSurvive
    LateChangesSurvive
    ImplementsStore
