SPECIFICATION MCSpec
CONSTANTS
    RqExporters = {1, 2}
    RqGroups <- MCRqGroups
    RqConfigs <- MCRqConfigs
    RqMaxAttempts = 2
    PlTenants = {1, 2}
    PlWorkers = {1}
    PlCapacity = 1
    PlMaxBytes = 2
    PlSoftPercent = 90
    PlPerTenantCap = 1
    PlHasDLQ = TRUE
    PlPanics = 1
    DlMaxFiles = 2
    DlMaxBytes = 3
    DlMaxRetries = 1
    DlMaxReplayPerTick = 1
    DlTicks = 3
    DlBatches <- MCDlBatches
    DlCrashes = 1
    ExServices = {1}
    ExWindows = {1, 2}
    ExTraces = {1, 2}
    ExOps = {1}
    TracesPerServiceWindow = 1
    TracesGlobalWindow = 1
    StratumTopK = 1
    BytesPerServiceWindow = 2
    BytesGlobalWindow = 2
    MaxBytesPerTrace = 1
    MaxSpansPerTrace = 1
    HealthyThreshold = 2
    LogsPerServiceWindow = 1
    LogsWarnEnabled = TRUE
    LogsWarnPerServiceWindow = 1
    SynthLogsPerTrace = 1
    ExReservations = {1, 2}
    ExMaxOffers = 3
    PruneFactor = 1
    MxExporters = {1, 2, 3}
    MxResources <- MCMxResources
    MxReaders = {1}
    MxQueries <- MCMxQueries
    MxPromTenant = "p"
    MxHasClient = TRUE
    MxRequiredModes = {TRUE, FALSE}
    MxMaxConcurrent = 1
    MxMaxIngest = 1
    MxMaxWaiters = 1
    MxMaxBytes = 2
    MxMaxRequestBytes = 2
    MxMaxQueryBytes = 1
    MxMaxRange = 1
    MxMaxSeries = 1
    MxMaxAttempts = 2
    GtNone = "none"
    GtInvalid = "inv"
    GtOperator = "op"
    GtPairs <- MCGtPairs
    GtTrustExternal = TRUE
    GtTrustResource = TRUE
    GtDefault = "d"
    GtRequests <- MCGtRequests
    GtRps = 1
    GtMaxClients = 2
    GtIdle = 1
    GtThreshold = 2
    GtTTL = 1
    GtMaxEntries = 2
    GtMaxCacheBytes = 3
    GtEntryCharge = 1
    GtSizes = {1, 3}
    GtMaxClock = 2
    ItRequests <- MCItRequests
    ItNoName = "none"
    ItUnknown = "unknown-service"
    ItHostEntity <- MCItHostEntity
    ItAllowed = {}
    ItExcluded = {"x"}
    ItMinSeverity = 20
    ItPolicies = {"sampler", "exemplar"}
    ItCapacity = 1
    LmKeys <- MCLmKeys
    LmWindows = {1, 2}
    OtherName = 0
    MaxSeries = 3
    SignalCap <- MCSignalCap
    NameCap <- MCNameCap
    SeriesCap <- MCSignalCap
    TenantLimit = 2
    BlExports = {1, 2, 3}
    BlProducers = {1, 2}
    BlProducer <- MCBlProducer
    MaxProducersPerSeries = 1
    MaxBaselines = 2
    GapThreshold = 1
    BlWindowSize = 1
    BlAllowedLateness = 1
    BlMaxTime = 4
    BlMaxFails = 1
    BlMaxCrashes = 1
    BlMaxRefusals = 1
    TmExports = {1, 2}
    TmFirst = {"a", "b"}
    TmSecond = {"x", "y"}
    TmLong <- MCTmLong
    TmMaxTemplates = 2
    TmMaxChildren = 1
    TmDictCap = 2
    TmMaxMines = 5
    TmMaxCrashes = 1
    TpExports = {1, 2, 3}
    TpTenants = {1}
    TpTenant <- MCTpTenant
    TpFacts <- MCTpFacts
    TpServices = {"s"}
    TpNames = {"x", "y"}
    TpWindows = {1, 2, 3}
    TpMaxServices = 1
    TpMaxOps = 1
    TpMaxEdges = 1
    TpMaxMetrics = 1
    TpRetain = 1
    TpMaxRev = 3
    RuProcs = {1, 2}
    RuVersion <- MCRuVersion
    RuRebuild = {1, 2}
    RuAware = {1}
    RuSeries = {1, 2}
    RuService <- MCRuService
    RuLossy = {2}
    RuWindows = {0, 1}
    RuPerHour = 2
    RuMaxAdds = 2
    RuMaxTokens = 3
    RuMaxStores = 3
INVARIANTS
    IngestTypeOK
    BytesSettle
    DlNothingVanishes
    AccountsExact
    AnswerKept
    MetricsAccounted
    BoundStaysHome
    IntakeExact
    CensusExact
    TotalsExactAlone
    AckedLinesResolve
    TruncationDeclared
    HistoryExact
CHECK_DEADLOCK FALSE
