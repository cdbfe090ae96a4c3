SPECIFICATION Spec
CONSTANTS
    Users = {u1, u2}
    Requests = {q1, q2}
    Invites = {i1, i2}
    NoRequest = NoRequest
    NoUser = NoUser
INVARIANTS
    TypeOK
    AuditedRoleIsCurrent
    NoStandstill
PROPERTIES
    LastOwnerLeavesOnlyStale
    RosterSpec
SYMMETRY MCSymmetry
CHECK_DEADLOCK FALSE
