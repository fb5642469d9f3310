SPECIFICATION Spec
CONSTANTS
    m1 = m1
    m2 = m2
    Ready = Ready
    Done = Done
    None = None
    Messages = {m1}
    MaxDeliveries = 2
    MaxInFlight = 1
    NoId = {}
    Undecodable = {}
    MaxAttempts = 0
    BrokerRequeues = FALSE
    Restarts = FALSE
    AutoRespond = FALSE
    UseRecover = TRUE
    UseTimeout = TRUE
    UseDedup = TRUE
    MaxRetries = 1
    HandlerCalls <- NoCall
    Outcomes <- AnyOutcome
INVARIANTS
    RecoverKeepsProcess
CHECK_DEADLOCK FALSE
