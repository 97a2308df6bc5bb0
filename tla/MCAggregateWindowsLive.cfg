SPECIFICATION FairSpec
CONSTANTS
    e1 = e1
    e2 = e2
    Exports <- MCExports
    WindowSize = 1
    AllowedLateness = 1
    MaxFutureSkew = 0
    MaxClosedWindows = 1
    FinalizePerPass = 2
    MaxTime = 3
    MaxCrashes = 1
    MaxFailures = 1
PROPERTIES
    ExpiredLeavesMemory
CHECK_DEADLOCK FALSE
