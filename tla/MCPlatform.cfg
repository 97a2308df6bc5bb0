SPECIFICATION MCSpec
CONSTANTS
    RsKeys <- MCRsKeys
    RsDrivers = {"sqlite", "postgres", "partitioned"}
    RsRetention = 2
    RsExemplar = 1
    RsBatch = 1
    RsTicksPerDay = 2
    RsLookahead = 1
    RsBudget = 100
    RsVolumes <- MCRsVolumes
    RsUsages = {50, 87, 96}
    RsAges = {0, 3}
    RsMaxNow = 6
    RsMaxRows = 2
    TsTenants = {1, 2}
    TsSeries = {1, 2}
    TsPerTenantCap = 1
    TsGlobalCap = 1
    TsChanCap = 1
    TsWorkers = {1}
    TsRingSlots = 3
    TsRingMax = 1
    TsMaxWindow = 3
    TsMaxPoints = 3
    TsMaxTicks = 2
    GrTenants = {1, 2}
    GrDefault = 1
    GrWorkers = {1, 2}
    GrChannel = 1
    GrMaxSpans = 1
    GrClusterCap = 1
    GrWindow = 4
    GrOverlap = 2
    GrLimit = 2
    GrIdle = 1
    GrLate = 1
    GrMaxTime = 4
    GrMaxRows = 3
    GrMaxEvents = 2
    HbClients = {1, 2}
    HbTenant <- MCHbTenant
    HbTenants = {1, 2}
    HbSendCap = 1
    HbChanCap = 1
    HbMaxBuffer = 2
    HbMaxClients = 1
    HbMaxEntries = 2
    HbMaxRev = 3
    EhClients = {1, 2}
    EhTenant <- MCEhTenant
    EhTenants = {1, 2}
    EhServices = {0, 1}
    EhSendCap = 1
    EhChanCap = 1
    EhMaxClients = 1
    EhMaxEntries = 1
    EhMaxRev = 2
    MgProcs = {1, 2, 3, 4, 5}
    MgRole <- MCMgRole
    CurrentVersion = 2
    MgBaseline = 1
    MgFtsEnabled = TRUE
    MgMaxFaults = 1
    BkCandidates = {1, 2}
    BkMaxRuntimes = 2
    BkMaxWrites = 1
    BkMaxCommands = 2
    BkStartDuringCreate = FALSE
INVARIANTS
    PlatformTypeOK
    StopNeverWedged
    CleanShutdownSavedAll
    ShutdownProcessedAll
    MigratingIsNotDamage
    RestoredIsOneStop
PROPERTIES
    OnlyExpiredGo
    BlindNeverRelaxes
    ToldInOrder
    EhToldInOrder
CHECK_DEADLOCK FALSE
