SPECIFICATION FairSpec
CONSTANTS
    c1 = c1
    Calls = {c1}
    MaxRetries = 1
    Methods <- MCMethods
    SkipMethods <- MCSkip
    Services = {"a", "b"}
    Certs <- MCCerts
    Confs <- MCConfs
    Validators = {"bearer", "hmac", "api_key"}
    HmacKeys = {"a"}
    Patterns <- MCPatterns
    Rules <- MCRules
    InitialRules <- MCInitial
    KeyExpiry = 1
    RequiredPerms <- MCRequired
    KeyPerms = {"read"}
    Validity = 1
    MaxNow = 3
    MaxAdmin = 1
INVARIANTS
    
    CallInv
PROPERTIES
    CallReturns
CHECK_DEADLOCK FALSE
