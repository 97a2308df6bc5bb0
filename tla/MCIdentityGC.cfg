SPECIFICATION Spec
CONSTANTS
    x1 = x1
    x2 = x2
    x3 = x3
    v1 = v1
    v2 = v2
    Exports <- MCExports
    Values <- MCValues
    None = None
    MaxId = 3
    MaxPasses = 2
    MaxCrashes = 2
SYMMETRY IdentitySymmetry
INVARIANTS
    TypeOK
    ReferencesResolve
    IdsNeverReused
CHECK_DEADLOCK FALSE
