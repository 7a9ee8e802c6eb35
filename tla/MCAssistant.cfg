CONSTANTS
    m1 = m1
    m2 = m2
    m3 = m3
    Assistants = {a1, a2}
    Machines = {m1, m2, m3}
    Base <- MCBase
    Empty = Empty
    NoFile = NoFile
    MaxTime = 1
SPECIFICATION Spec
INVARIANTS
    TypeOK
    RequestsEndWithUser
    ToldIsOnFile
CHECK_DEADLOCK FALSE
