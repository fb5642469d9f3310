SPECIFICATION MCSpec
CONSTANTS
    Txns = {"x"}
    Relays = {"r", "s"}
    Events <- MCEventSet
    Catalogs <- MCCatalogs
    OutboxOptions <- MCOptions
    OutboxHooks = {"h1", "h2"}
    MaxCrashes = 1
    MaxRefusals = 1
    Providers = {"rabbitmq", "nsq"}
    Imports = {"rabbitmq", "nsq"}
    Apps = {"a", "b"}
    Handlers = {"h"}
    BusTopics = {"t", "s"}
    Payloads <- MCPayloads
    MaxPublish = 1
    MaxFaults = 1
INVARIANTS
    
    OutboxInv
PROPERTIES
    CloseReturns
    OutboxProgress
    ImplementsOutbox
CHECK_DEADLOCK FALSE
