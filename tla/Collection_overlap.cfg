CONSTANTS
    sweep = sweep
    daily = daily
    i1 = i1
    i2 = i2
    Proc = {sweep, daily}
    Cron <- MCSweeps
    Projects = 1
    Issue = {i1, i2}
    Owner <- MCOwners
    Attempts = 2
    MaxTime = 0
    MaxChanges = 1
    MaxFaults = 1
SPECIFICATION FairSpec
PROPERTIES
    ClosedIsNoticed
    SourceComesBack
