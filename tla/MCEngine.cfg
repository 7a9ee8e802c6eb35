CONSTANTS
    NoName = ""
    ExitState = "exit"
    StateNames <- MCStateNames
    ExitNames <- MCExitNames
    Machines <- MCMachines
    MaxStepsArgs <- MCMaxStepsArgs
    DefaultMaxAutoAdvances = 3
SPECIFICATION Spec
INVARIANTS
    TypeOK
    EventsTraceSession
    FailuresObserved
    FailureLandsInErrorState
    AnswersAtRest
    OutputInOrder
    MovesBounded
    AnswerAllowed
PROPERTIES
    Walks
    RequestsAnswered
