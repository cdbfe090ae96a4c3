SPECIFICATION Spec
CONSTANTS
    Requests = {q1, q2}
    NoRequest = NoRequest
    Names = {n1, n2}
    NoName = NoName
    MaxIssues = 2
PROPERTIES
    ArchivedTakesNoIssue
