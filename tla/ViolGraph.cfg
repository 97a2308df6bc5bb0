SPECIFICATION GrSpec
CONSTANTS
    GrTenants = {1}
    GrDefault = 1
    GrWorkers = {1}
    GrChannel = 1
    GrMaxSpans = 1
    GrClusterCap = 1
    GrWindow = 4
    GrOverlap = 2
    GrLimit = 2
    GrIdle = 1
    GrLate = 1
    GrMaxTime = 4
    GrMaxRows = 3
    GrMaxEvents = 0
INVARIANT LagEndsNextTick
CHECK_DEADLOCK FALSE
