SPECIFICATION FairSpec
CONSTANTS
    a = a
    b = b
    c = c
    Exports <- MCExports
    Bytes <- MCBytes
    Deltas <- MCDeltas
    MaxWaiters = 2
    MaxPendingBytes = 3
    MaxPendingDeltas = 3
    MaxBatchDeltas = 3
    MaxBatchBytes = 3
    MaxCrashes = 1
INVARIANTS
    TypeOK
    WaitersExact
    BudgetExact
    AnsweredTruthfully
PROPERTIES
    ImplementsDurableAck
    ParkedIsAnswered
    BarrierReturns
    ShutdownDrains
CHECK_DEADLOCK FALSE
