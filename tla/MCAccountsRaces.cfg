SPECIFICATION Spec
CONSTANTS
    Tokens = {t1, t2, t3}
    Logins = {s1, s2}
    Requests = {q1, q2}
    NoRequest = NoRequest
INVARIANTS
    TypeOK
    OldPasswordsAreLate
    EffectsAreAccounted
PROPERTIES
    ContractSpec
    EveryRequestEnds
