SPECIFICATION Spec
CONSTANTS
    Requests = {q1, q2}
    NoRequest = NoRequest
    People = {u1}
    Nobody = Nobody
    ClientsGuess = FALSE
    MaxVersion = 4
INVARIANTS
    TypeOK
    OneWinnerPerVersion
    AuditIsExact
PROPERTIES
    LifecycleSpec
    ArchivedComesToRest
CHECK_DEADLOCK FALSE
