CONSTANTS
    w1 = w1
    w2 = w2
    Worker = {w1, w2}
    Limit = 2
    Threshold = 2
    MaxFailures = 2
    MaxLost = 1
    MaxKeys = 1
    MaxRaises = 1
    MaxRefusals = 1
SPECIFICATION FairSpec
CHECK_DEADLOCK FALSE
INVARIANTS
    TypeOK
    SlotsAndPausesSound
    ClaimsHandedBack
PROPERTIES
    ShutdownEnds
    RunEnds
