SPECIFICATION Spec
CONSTANTS
    m1 = m1
    m2 = m2
    Ready = Ready
    Done = Done
    None = None
    Messages = {m1, m2}
    MaxDeliveries = 2
    MaxInFlight = 1
    NoId = {}
    Undecodable = {}
    MaxAttempts = 0
    BrokerRequeues = TRUE
    Restarts = TRUE
    AutoRespond = FALSE
    UseRecover = TRUE
    UseTimeout = TRUE
    UseDedup = TRUE
    MaxRetries = 1
    HandlerCalls <- AnyCall
    Outcomes <- AnyOutcome
INVARIANTS
    AnsweredOnce
    MarkedIsProcessed
PROPERTIES
    ImplementsContract
CHECK_DEADLOCK FALSE
