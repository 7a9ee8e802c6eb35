CONSTANTS
    NoName = ""
    ExitState = "exit"
    StateNames <- MCStateNames
    ExitNames <- MCExitNames
    Machines <- MCMachines
    MaxStepsArgs <- MCMaxStepsArgs
    DefaultMaxAutoAdvances = 3
SPECIFICATION Spec
PROPERTY
    FinishStopsProcessing
