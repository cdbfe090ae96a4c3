SPECIFICATION Spec
CONSTANTS
    Families = {f1}
    Requests = {q1, q2}
    NoRequest = NoRequest
    Kinds = {"refresh", "logout", "reset_password"}
    MaxRows = 3
INVARIANTS
    TypeOK
    OneTip
    SurvivorsWereRaced
PROPERTIES
    ChainSpec
    EveryRequestEnds
