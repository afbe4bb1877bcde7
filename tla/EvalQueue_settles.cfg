CONSTANTS
    w1 = w1
    w2 = w2
    Worker = {w1}
    Issue = {1, 2}
    RowId = {1, 2, 3, 4, 5, 6, 7, 8}
    Text = {0}
    TTL = 1
    MaxAttempts = 2
    OpenOnly = TRUE
    MaxGen = 0
    MaxEdits = 1
    MaxClears = 1
    MaxFaults = 1
    MaxCrashes = 1
SPECIFICATION FairSpec
CHECK_DEADLOCK FALSE
PROPERTIES
    AllEventuallyCurrent
