SPECIFICATION Spec
CONSTANTS
    Requests = {q1, q2}
    NoRequest = NoRequest
    People = {u1}
    Nobody = Nobody
    ClientsGuess = TRUE
    MaxVersion = 3
INVARIANTS
    AuditIsExact
CHECK_DEADLOCK FALSE
