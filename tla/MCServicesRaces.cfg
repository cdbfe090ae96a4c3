SPECIFICATION Spec
CONSTANTS
    Limit = 2
    Window = 3
    Clients = {q1, q2}
    LabelIds = {l1, l2}
    LabelNames = {n1, n2}
    Colors = {c1, c2}
    TaggedIssues = {i1}
    Rows = {1, 2, 3}
    Projects = {p1, p2}
    Threads = {t1}
    PageSize = 1
    LastStamp = 2
    NoCursor = NoCursor
INVARIANTS
    TypeOK
    AtMostTwiceTheLimit
    WholeUnlessOvertaken
    WalkIsComplete
    LateOnlyAcrossProjects
PROPERTIES
    RefusalEnds
CHECK_DEADLOCK FALSE
