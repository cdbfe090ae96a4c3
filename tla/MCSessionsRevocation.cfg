SPECIFICATION Spec
CONSTANTS
    Families = {f1}
    Requests = {q1, q2}
    NoRequest = NoRequest
    Kinds = {"refresh", "logout"}
    MaxRows = 2
INVARIANTS
    RevocationEndsSession
