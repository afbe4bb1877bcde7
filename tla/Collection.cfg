CONSTANTS
    sweep = sweep
    daily = daily
    i1 = i1
    i2 = i2
    Proc = {daily}
    Cron <- MCModes
    Projects = 1
    Issue = {i1, i2}
    Owner <- MCOwners
    Attempts = 2
    MaxTime = 2
    MaxChanges = 1
    MaxFaults = 1
SYMMETRY Symmetry
SPECIFICATION Spec
INVARIANTS
    TypeOK
    OpenWatermarkSound
    FullWatermarkGap
