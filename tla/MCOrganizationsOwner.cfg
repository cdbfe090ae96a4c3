SPECIFICATION Spec
CONSTANTS
    Users = {u1, u2}
    Requests = {q1, q2}
    Invites = {i1}
    NoRequest = NoRequest
    NoUser = NoUser
INVARIANTS
    FinalOwner
CHECK_DEADLOCK FALSE
