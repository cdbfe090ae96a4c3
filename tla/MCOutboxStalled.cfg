SPECIFICATION Spec
CONSTANTS
    NumEvents = 2
    Workers = {w1, w2}
    NoWorker = NoWorker
    BatchSize = 2
    Lease = 1
    TaskLimit = 1
    LimitsEnforced = FALSE
    MaxAttempts = 2
    MaxBackoff = 1
    Undeliverable <- MCNothing
    MaxFaults = 1
    SendCap = 2
INVARIANTS
    ProcessedWasMailed
    TokenUntilProcessed
    FailedIffExhausted
    LeaseProtects
PROPERTIES
    SettledIsFinal
    PromiseSpec
