CONSTANTS
    NoName = ""
    ExitState = "exit"
    StateNames <- MCStateNames
    ExitNames <- MCExitNames
    MachineFiles <- MCMachineFiles
    RuntimeFiles <- MCRuntimeFiles
    DefaultMaxAutoAdvances = 3
    StartTime = 2
    MaxTime = 4
    Workers = {w1, w2}
    SessionIDs = {"s1"}
    Faults = {"load", "get", "upsert", "restart"}
SYMMETRY Symmetry
SPECIFICATION Spec
INVARIANTS
    TypeOK
    Continues
    LifetimeBounded
PROPERTIES
    ExpiryAdvances
    ExitIsFinal
