CONSTANTS
    p1 = p1
    p2 = p2
    c1 = c1
    c2 = c2
    c3 = c3
    Processes = {p1, p2}
    Callers = {c1, c2}
    Home <- MCTwoHome
    Kinds <- MCTwoKinds
    SessionIDs = {s1}
    Sessions <- MCLifetimes
    NoSession = NoSession
    Torn = Torn
    NoCall = NoCall
    NoCaller = NoCaller
    MaxTime = 2
    Faults = {}
SPECIFICATION Spec
PROPERTY
    DeletesOnlyExpired
