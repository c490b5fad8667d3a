SPECIFICATION Spec

CONSTANTS
    Modes        = {"write"}
    Statements   <- AllStatements
    MaxScript    = 3
    QueryTimeout = 1
    Margin       = 1

INVARIANTS
    ReportsTheEnd

CHECK_DEADLOCK FALSE
