SPECIFICATION MCSpec
CONSTANTS
    Parts = {"runtime", "store", "certs", "requests", "logs", "databases"}
    ProfileNames = {"p"}
    OtherNames = {"q"}
    Callers = {"x", "y"}
    Askers = {"u"}
    RedisAddrs = {"A", "B"}
    RuntimeConfs <- MCRuntimeConfs
    MaxRetryDelay = 3
    MaxFaults = 1
    Users = {"json", "gzip", "child"}
    Stores <- MCStores
    Purges <- MCPurges
    Second = 3
    MaxWrites = 2
    MaxPurges = 1
    MaxScans = 1
    MaxGen = 2
    IssuerOf <- MCIssuerOf
    Loaders = {"l1", "l2"}
    RequireClientCert = TRUE
    EnableAutoReload = TRUE
    AllowedCNs <- MCAllowedCNs
    AllowedOUs = {"x"}
    AllowedDNSSANs <- MCAllowedDNSSANs
    Peers <- MCPeers
    Requests <- MCRequests
    RequestGroups <- MCRequestGroups
    SkipPaths = {"/health"}
    MaxBodyBytes = 2
    LogRequestBody = TRUE
    LogResponseBody = TRUE
    IgnoredCommands = {"ping"}
    LogCommandDetail = TRUE
    GormLevel = 3
    MongoIDs = {1, 2}
    MaxOps = 2
    LogConfs <- MCLogConfs
    LogPaths = {"app", "app-error"}
    SameDirPrefix <- MCSameDirPrefix
    LogPeriod = 3
    LogLevels = {3, 4}
    MaxDay = 4
    MaxRecords = 2
    DbTypes = {"mysql", "redis"}
    DbUsers = {"u"}
    DbUses = {"init", "close", "health", "get"}
    DbStages <- MCDbStages
    DbHooks <- MCDbHooks
    MaxUses = 1
INVARIANTS
    RuntimeInv
    
    
    
    
    DbInv
PROPERTIES
    Recovers
    PurgeStaysInside
    BuilderCatchesUp
    InitAllOrError
CHECK_DEADLOCK FALSE
