SPECIFICATION Spec
CONSTANTS
    Requests = {q1, q2, q3}
    NoRequest = NoRequest
    Names = {n1, n2}
    NoName = NoName
    MaxIssues = 3
INVARIANTS
    TypeOK
    NumbersAreDense
    ArchivedAsAudited
PROPERTIES
    EveryRequestEnds
