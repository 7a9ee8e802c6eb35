CONSTANTS
    NoName = ""
    ExitState = "exit"
    StateNames <- MCStateNames
    ExitNames <- MCExitNames
    MachineFiles <- MCOneMachine
    RuntimeFiles <- MCRuntimeFiles
    DefaultMaxAutoAdvances = 3
    StartTime = 2
    MaxTime = 4
    Workers = {w1, w2}
    SessionIDs = {"s1"}
    Faults = {}
SPECIFICATION Spec
PROPERTY
    NeverLeavesExit
