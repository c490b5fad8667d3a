SPECIFICATION FairSpec

CONSTANTS
    Modes        = {"read", "write"}
    Statements   <- AllStatements
    MaxScript    = 3
    QueryTimeout = 2
    Margin       = 1

INVARIANTS
    TypeOK ReadOnlyHolds  ReturnedClean ConnectionSurvives SuccessTellsTheTruth

PROPERTIES
    CallEnds CallAdvances KeepsPromise

CHECK_DEADLOCK FALSE
