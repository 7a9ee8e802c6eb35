CONSTANTS
    p1 = p1
    p2 = p2
    c1 = c1
    c2 = c2
    c3 = c3
    Processes = {p1, p2}
    Callers = {c1, c2, c3}
    Home <- MCHome
    Kinds <- MCKinds
    SessionIDs = {s1}
    Sessions <- MCSessions
    NoSession = NoSession
    Torn = Torn
    NoCall = NoCall
    NoCaller = NoCaller
    MaxTime = 1
    Faults = {"io", "crash", "power"}
SPECIFICATION Spec
INVARIANTS
    TypeOK
    LockExclusive
    Intact
PROPERTIES
    Atomic
    Returns
