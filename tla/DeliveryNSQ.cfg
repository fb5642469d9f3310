SPECIFICATION FairSpec
CONSTANTS
    m1 = m1
    m2 = m2
    Ready = Ready
    Done = Done
    None = None
    Messages = {m1, m2}
    MaxDeliveries = 3
    MaxInFlight = 2
    NoId = {}
    Undecodable = {m2}
    MaxAttempts = 2
    BrokerRequeues = TRUE
    Restarts = FALSE
    AutoRespond = TRUE
    UseRecover = TRUE
    UseTimeout = TRUE
    UseDedup = TRUE
    MaxRetries = 0
    HandlerCalls <- AckOrNone
    Outcomes <- OkOrErr
INVARIANTS
    NothingLost
PROPERTIES
    TimeoutFreesAdapter
CHECK_DEADLOCK FALSE
