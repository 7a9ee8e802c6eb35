CONSTANTS
    j = j
    k = k
    MaxTokens = 5
    Registered <- MCNames
    Keys <- MCKeys
    Shown <- MCShown
    Clauses <- MCClauses
    Malformed = Malformed
    Or = Or
    And = And
    Conditions <- MCConditions
    NoObject = NoObject
SPECIFICATION Spec
INVARIANTS
    TypeOK
    MeansWhatItSays
    FirstTrueWins
CHECK_DEADLOCK FALSE
