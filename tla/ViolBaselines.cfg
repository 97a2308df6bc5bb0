SPECIFICATION BlSpec
CONSTANTS
    BlExports = {1, 2, 3}
    BlProducers = {1, 2}
    BlProducer <- MCBlProducer
    MaxProducersPerSeries = 1
    MaxBaselines = 2
    GapThreshold = 2
    BlWindowSize = 2
    BlAllowedLateness = 3
    BlMaxTime = 4
    BlMaxFails = 2
    BlMaxCrashes = 0
    BlMaxRefusals = 0
INVARIANT TotalsExact
CHECK_DEADLOCK FALSE
