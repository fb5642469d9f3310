SPECIFICATION FairSpec
CONSTANTS
    g1 = g1
    g2 = g2
    b1 = b1
    b2 = b2
    s1 = s1
    s2 = s2
    s3 = s3
    Managers = {g1, g2}
    Callbacks = {b1}
    Services = {s1, s2, s3}
    NilRun = {s3}
    FailingStart = {g2}
    MaxSignals = 2
INVARIANTS
    CallbacksBeforeExit
    
PROPERTIES
    GroupEnds
    SignalExits
CHECK_DEADLOCK FALSE
