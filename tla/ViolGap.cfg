SPECIFICATION Spec
CONSTANTS
    e1 = e1
    e2 = e2
    Exports <- MCExports
    WindowSize = 1
    AllowedLateness = 1
    MaxFutureSkew = 0
    MaxClosedWindows = 1
    FinalizePerPass = 2
    MaxTime = 4
    MaxCrashes = 1
    MaxFailures = 1
SYMMETRY ExportSymmetry
INVARIANTS
    QueryCompleteWhenFinalizeFails
CHECK_DEADLOCK FALSE
