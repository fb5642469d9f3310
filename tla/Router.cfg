SPECIFICATION FairSpec
CONSTANTS
    a1 = a1
    a2 = a2
    k1 = k1
    k2 = k2
    None = None
    Keys = {k1, k2}
    Callers = {a1, a2}
    Reentrant = {k1}
    Brokers = {"nsq", "rabbitmq"}
    MaxRuns = 2
INVARIANTS
    QuietAfterStop
    NoDoubleClose
PROPERTIES
    StopReturns
CHECK_DEADLOCK FALSE
