CONSTANTS
    Scanner = {1, 2}
    Projects = 2
    Issue = {1}
    Cap = 1
    MaxCommits = 2
    MaxForce = 1
    MaxToggles = 1
    MaxFaults = 1
SPECIFICATION FairSpec
CHECK_DEADLOCK FALSE
INVARIANTS
    TypeOK
    NothingSkipped
    HitsInvalidate
PROPERTIES
    CaughtUp
