SPECIFICATION Spec
CONSTANTS
    NumEvents = 3
    Workers = {w1, w2}
    NoWorker = NoWorker
    BatchSize = 2
    Lease = 1
    TaskLimit = 1
    LimitsEnforced = TRUE
    MaxAttempts = 2
    MaxBackoff = 2
    Undeliverable <- MCLastEvent
    MaxFaults = 1
    SendCap = 5
INVARIANTS
    TypeOK
    SingleHolder
    RepeatsAreExcused
PROPERTIES
    EventuallySettled
