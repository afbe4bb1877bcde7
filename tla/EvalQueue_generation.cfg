CONSTANTS
    w1 = w1
    w2 = w2
    Worker = {w1}
    Issue = {1}
    RowId = {1, 2, 3, 4, 5, 6, 7, 8}
    Text = {0}
    TTL = 1
    MaxAttempts = 1
    OpenOnly = FALSE
    MaxGen = 1
    MaxEdits = 0
    MaxClears = 0
    MaxFaults = 0
    MaxCrashes = 0
SPECIFICATION Spec
CHECK_DEADLOCK FALSE
INVARIANTS
    GenerationIsTheEvaluateds
