CONSTANTS
    Servers = {s1, s2}
    Calls = {k1, k2}
    NoServer = NoServer
    NoSocket = NoSocket
    Stale = Stale
    Circumstances = {"kill", "io"}
SPECIFICATION Spec
INVARIANTS
    TypeOK
    Reachable
    AnswersTrue
PROPERTIES
    RefusedForAServer
    Ends
