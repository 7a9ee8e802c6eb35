CONSTANTS
    Servers = {s1, s2}
    Calls = {k1, k2}
    NoServer = NoServer
    NoSocket = NoSocket
    Stale = Stale
    Circumstances = {"overlap"}
SPECIFICATION Spec
INVARIANT
    OneServer
