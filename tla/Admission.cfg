SPECIFICATION MCSpec
CONSTANTS
    BpCallers = {"a", "b", "c"}
    GateConfs <- MCGateConfs
    Deadline <- MCDeadline
    MaxExtra = 1
    RlCallers = {"a", "b"}
    RlKeys = {"", "k"}
    One = 5
    Rate = 3
    Burst = 1
    LimiterTTL = 2
    CleanupInterval = 1
    MaxEntries = 1
    Skew <- MCSkew
    Margin = 1
    MaxClock = 4
    MaxSetBack = 3
    MaxLost = 1
    ChainConfs <- MCChainConfs
    Msgs = {"m1", "m2", "m3"}
    Workers = {"v", "w"}
    MaxFails = 2
INVARIANTS
    GateInv
    
    ChainInv
PROPERTIES
    WaitIsBounded
    MessagesGetThrough
CHECK_DEADLOCK FALSE
