SPECIFICATION Spec
CONSTANTS
    x1 = x1
    x2 = x2
    x3 = x3
    v1 = v1
    v2 = v2
    Exports <- MCExports
    Values <- MCValues
    None = None
    MaxId = 3
    MaxPasses = 1
    MaxCrashes = 1
SYMMETRY IdentitySymmetry
INVARIANT RegisteredIdsSurvive
CHECK_DEADLOCK FALSE
